---- MODULE Spec2Model ----
(***************************************************************************)
(* Context budgeting and pruning engine of ddb_agent:                      *)
(*   context/budget.py, context/pruner.py, context/context_builder.py,     *)
(*   token_counter.py.                                                     *)
(*                                                                         *)
(* A text is modelled by an identifier of the string it was taken from and *)
(* its length in characters; count_tokens is the estimate the code falls   *)
(* back to when no tokenizer directory is installed (len(text) // 3).      *)
(* A Python float constant is modelled by the rational it denotes together *)
(* with the representation error of its IEEE-754 double, so that           *)
(* int(n * 0.70) is computed as CPython computes it.                       *)
(***************************************************************************)
EXTENDS Integers, Sequences, FiniteSets, TLC

VARIABLES
    call,   \* the operation invoked and its arguments
    ret,    \* its outcome: pending, a returned value, or a raised error
    pc,     \* where the invoked operation stands: "call", "collect", "done"
    frame,  \* locals of ContextBuilder.build that outlive the document pruning
    small_files,            \* ExtractPruner.prune: documents under the threshold
    large_files,            \* ExtractPruner.prune: the documents submitted
    futures,                \* indexes into large_files of the tasks in flight
    processed_large_files   \* results of the tasks, in completion order

extractVars == <<small_files, large_files, futures, processed_large_files>>
vars == <<call, ret, pc, frame, extractVars>>

\* No ExtractPruner.prune is running.
ExtractIdle ==
    /\ small_files = <<>>
    /\ large_files = <<>>
    /\ futures = {}
    /\ processed_large_files = <<>>

NoFrame == [fn |-> "none"]

\* An optional int argument: None, or Some(n).
None == <<>>
Some(n) == <<n>>

Pending == [kind |-> "pending"]
Return(v) == [kind |-> "return", value |-> v]
Raise(e) == [kind |-> "raise", error |-> e]

(***************************************************************************)
(* Bounds of the model.                                                    *)
(***************************************************************************)
MaxSafeZone == 100
MaxSysTokens == 12
MaxDocs == 3
MaxMsgs == 4
MaxHistoryBudget == 30
MaxExtractDocs == 2
MaxBuildMsgs == 2

(***************************************************************************)
(* Sequence helpers.                                                       *)
(***************************************************************************)
RECURSIVE SumSeq(_)
SumSeq(s) == IF s = <<>> THEN 0 ELSE Head(s) + SumSeq(Tail(s))

Prefix(s, n) == SubSeq(s, 1, n)
Suffix(s, n) == SubSeq(s, Len(s) - n + 1, Len(s))

(***************************************************************************)
(* Python floats.  A float literal w is the record                         *)
(*   [num, den]        the decimal literal as a fraction,                  *)
(*   [sign, eNum, eDen] double(w) - w = sign * (eNum/eDen) * 2^-53.        *)
(* FloatMulInt(n, w) is int(n * w) for an int n >= 0: the product is       *)
(* rounded to the nearest double (ties to even) and then truncated.  The   *)
(* exact product is within 1/den of an integer only when it is one, so     *)
(* rounding changes the truncation only when n*w is an integer m and the   *)
(* double nearest to m + n*err lies below m, i.e. when |n*err| exceeds    *)
(* half the spacing of the doubles just below m.                           *)
(***************************************************************************)
Float(num, den, sign, eNum, eDen) ==
    [num |-> num, den |-> den, sign |-> sign, eNum |-> eNum, eDen |-> eDen]

RECURSIVE Pow2Ceil(_, _)
Pow2Ceil(p, m) == IF p >= m THEN p ELSE Pow2Ceil(2 * p, m)

FloatGt(a, b) == a.num * b.den > b.num * a.den

FloatMulIntExact(n, w) == (n * w.num) \div w.den

FloatMulInt(n, w) ==
    LET m == (n * w.num) \div w.den
        exactInt == (n * w.num) % w.den = 0
        roundsBelow == 2 * n * w.eNum > w.eDen * Pow2Ceil(1, m)
    IN IF exactInt /\ w.sign < 0 /\ m > 0 /\ roundsBelow THEN m - 1 ELSE m

F040 == Float(2, 5, 1, 1, 5)
F060 == Float(3, 5, -1, 1, 5)
F025 == Float(1, 4, 0, 0, 1)
F075 == Float(3, 4, 0, 0, 1)
F070 == Float(7, 10, -1, 2, 5)
F030 == Float(3, 10, -1, 1, 10)
\* 0.5 is no weight of CONTEXT_WEIGHTS: the pair of equal weights of SpecAdjust.
F050 == Float(1, 2, 0, 0, 1)
F090 == Float(9, 10, 1, 1, 5)
F080 == Float(4, 5, 1, 2, 5)
F095 == Float(19, 20, -1, 2, 5)

(***************************************************************************)
(* token_counter.py                                                        *)
(***************************************************************************)
\* A string: the kind of text, what it was taken from or built for, the
\* pieces a generated text was put together from, and its length in characters.
Text(kind, ref, len) == [kind |-> kind, ref |-> ref, parts |-> <<>>, len |-> len]

EmptyText == Text("", 0, 0)

_estimate_tokens(text) == text.len \div 3

count_tokens(text) == _estimate_tokens(text)

(***************************************************************************)
(* context/budget.py                                                       *)
(***************************************************************************)
Weights(h, f) == [conversation_history |-> h, file_context |-> f]

CONTEXT_WEIGHTS ==
    [default |-> Weights(F040, F060),
     coding  |-> Weights(F025, F075),
     chat    |-> Weights(F070, F030)]

TaskTypes == DOMAIN CONTEXT_WEIGHTS

\* _adjust_budgets applied to an object whose budgets are h and f.
_adjust_budgets_tie_to_file(weights, h, f, remaining_budget) ==
    LET diff == remaining_budget - (h + f)
    IN IF ~FloatGt(weights.conversation_history, weights.file_context)
       THEN [history_budget |-> h, file_context_budget |-> f + diff]
       ELSE [history_budget |-> h + diff, file_context_budget |-> f]

_adjust_budgets_to_smaller(weights, h, f, remaining_budget) ==
    LET diff == remaining_budget - (h + f)
    IN IF FloatGt(weights.file_context, weights.conversation_history)
       THEN [history_budget |-> h + diff, file_context_budget |-> f]
       ELSE [history_budget |-> h, file_context_budget |-> f + diff]

_adjust_budgets_none(weights, h, f, remaining_budget) ==
    [history_budget |-> h, file_context_budget |-> f]

_adjust_budgets(weights, h, f, remaining_budget) ==
    LET current_sum == h + f
        diff == remaining_budget - current_sum
    IN IF FloatGt(weights.file_context, weights.conversation_history)
       THEN [history_budget |-> h, file_context_budget |-> f + diff]
       ELSE [history_budget |-> h + diff, file_context_budget |-> f]

\* Steps 3 and 4 of ContextBudget.__init__ for the weights of the profile.
Allocate(weights, remaining_budget) ==
    _adjust_budgets(weights,
                    FloatMulInt(remaining_budget, weights.conversation_history),
                    FloatMulInt(remaining_budget, weights.file_context),
                    remaining_budget)

ContextBudget_ge_only(total_safe_zone, system_prompt_tokens, task_type) ==
    IF task_type \notin TaskTypes THEN Raise("ValueError")
    ELSE IF system_prompt_tokens > total_safe_zone THEN Raise("ValueError")
    ELSE LET b == Allocate(CONTEXT_WEIGHTS[task_type],
                           total_safe_zone - system_prompt_tokens)
         IN Return([system_prompt_tokens |-> system_prompt_tokens,
                    weights |-> CONTEXT_WEIGHTS[task_type],
                    history_budget |-> b.history_budget,
                    file_context_budget |-> b.file_context_budget])

ContextBudget(total_safe_zone, system_prompt_tokens, task_type) ==
    IF task_type \notin TaskTypes THEN Raise("ValueError")
    ELSE IF system_prompt_tokens >= total_safe_zone THEN Raise("ValueError")
    ELSE LET remaining_budget == total_safe_zone - system_prompt_tokens
             b == Allocate(CONTEXT_WEIGHTS[task_type], remaining_budget)
         IN Return([system_prompt_tokens |-> system_prompt_tokens,
                    weights |-> CONTEXT_WEIGHTS[task_type],
                    history_budget |-> b.history_budget,
                    file_context_budget |-> b.file_context_budget])

(***************************************************************************)
(* SpecBudget: the constructor applied to every bounded input.             *)
(***************************************************************************)
SafeZones == (0 .. MaxSafeZone) \cup {1000}
SysTokens == (0 .. MaxSysTokens) \cup {100}
TaskTypeArgs == TaskTypes \cup {"other"}

InitBudget ==
    /\ call \in [op : {"ContextBudget"}, total_safe_zone : SafeZones,
                 system_prompt_tokens : SysTokens, task_type : TaskTypeArgs]
    /\ ret = Pending
    /\ pc = "call"
    /\ frame = NoFrame
    /\ ExtractIdle

NewContextBudget ==
    /\ call.op = "ContextBudget"
    /\ ret = Pending
    /\ pc' = "done"
    /\ UNCHANGED <<frame, extractVars>>
    /\ ret' = ContextBudget(call.total_safe_zone, call.system_prompt_tokens,
                            call.task_type)
    /\ UNCHANGED call

NextBudget == NewContextBudget

SpecBudget == InitBudget /\ [][NextBudget]_vars

BudgetDone == call.op = "ContextBudget" /\ ret # Pending
Remaining == call.total_safe_zone - call.system_prompt_tokens

\* C1: for system_prompt_tokens < total_safe_zone and a known task type the
\* constructed budget has history_budget + file_context_budget equal to
\* total_safe_zone - system_prompt_tokens, and neither budget is negative.
C1_BudgetSum ==
    (BudgetDone /\ call.task_type \in TaskTypes
                /\ call.system_prompt_tokens < call.total_safe_zone)
    => /\ ret.kind = "return"
       /\ ret.value.history_budget + ret.value.file_context_budget = Remaining
       /\ ret.value.history_budget >= 0
       /\ ret.value.file_context_budget >= 0

\* A budget whose raw float products fall short of the remainder (chat,
\* remaining 90: int(90 * 0.70) = 62, int(90 * 0.30) = 27) has been built.
C1_Witness ==
    /\ BudgetDone /\ ret.kind = "return"
    /\ call.task_type = "chat" /\ Remaining = 90
    /\ ret.value.history_budget = 63 /\ ret.value.file_context_budget = 27

\* C4: for a known task type construction raises exactly when
\* system_prompt_tokens >= total_safe_zone, and returns an allocation
\* otherwise.
C4_FailsIffPromptFillsZone ==
    (BudgetDone /\ call.task_type \in TaskTypes)
    => /\ (ret.kind = "raise") <=> (call.system_prompt_tokens >= call.total_safe_zone)
       /\ (ret.kind = "return") <=> (call.system_prompt_tokens < call.total_safe_zone)

\* The boundary case: the prompt exactly fills the safe zone and is refused.
C4_Witness ==
    /\ BudgetDone /\ call.task_type \in TaskTypes
    /\ call.system_prompt_tokens = call.total_safe_zone
    /\ call.total_safe_zone > 0
    /\ ret.kind = "raise"

\* The exact floor shares of the profile and what they leave over.
FloorShare(w) == FloatMulIntExact(Remaining, w)
Residual(weights) ==
    Remaining - FloorShare(weights.conversation_history)
              - FloorShare(weights.file_context)

\* C5: the budget with the smaller weight is the floor of remaining x weight,
\* the budget with the larger weight is its floor plus the whole rounding
\* residual; safe zone 1000, system prompt 100, profile chat gives 630 / 270.
C5_ResidualToLargerWeight ==
    (BudgetDone /\ ret.kind = "return")
    => LET w == CONTEXT_WEIGHTS[call.task_type]
           fh == FloorShare(w.conversation_history)
           ff == FloorShare(w.file_context)
       IN /\ FloatGt(w.conversation_history, w.file_context)
               => /\ ret.value.history_budget = fh + Residual(w)
                  /\ ret.value.file_context_budget = ff
          /\ FloatGt(w.file_context, w.conversation_history)
               => /\ ret.value.file_context_budget = ff + Residual(w)
                  /\ ret.value.history_budget = fh
          /\ (call.total_safe_zone = 1000 /\ call.system_prompt_tokens = 100
                /\ call.task_type = "chat")
               => /\ ret.value.history_budget = 630
                  /\ ret.value.file_context_budget = 270

\* A chat budget with a non-zero residual: remaining 5 gives floors 3 and 1,
\* and the residual 1 went to the history budget.
C5_Witness ==
    /\ BudgetDone /\ ret.kind = "return"
    /\ call.task_type = "chat" /\ Remaining = 5
    /\ Residual(CONTEXT_WEIGHTS["chat"]) = 1
    /\ ret.value.history_budget = 4 /\ ret.value.file_context_budget = 1

\* The scenario of the specification has been constructed.
C5_Example ==
    /\ BudgetDone /\ ret.kind = "return"
    /\ call.total_safe_zone = 1000 /\ call.system_prompt_tokens = 100
    /\ call.task_type = "chat"

(***************************************************************************)
(* SpecAdjust: steps 3 and 4 of the constructor applied to an object whose *)
(* weights are any pair, among them a pair of equal weights (no entry of   *)
(* CONTEXT_WEIGHTS has equal weights).                                     *)
(***************************************************************************)
WeightPairs ==
    {CONTEXT_WEIGHTS[t] : t \in TaskTypes} \cup {Weights(F050, F050)}

InitAdjust ==
    /\ call \in [op : {"_adjust_budgets"}, weights : WeightPairs,
                 remaining_budget : 0 .. MaxSafeZone]
    /\ ret = Pending
    /\ pc = "call"
    /\ frame = NoFrame
    /\ ExtractIdle

AdjustBudgets ==
    /\ call.op = "_adjust_budgets"
    /\ ret = Pending
    /\ pc' = "done"
    /\ UNCHANGED <<frame, extractVars>>
    /\ ret' = Return(Allocate(call.weights, call.remaining_budget))
    /\ UNCHANGED call

NextAdjust == AdjustBudgets

SpecAdjust == InitAdjust /\ [][NextAdjust]_vars

AdjustDone == call.op = "_adjust_budgets" /\ ret # Pending
EqualWeights(w) ==
    /\ ~FloatGt(w.conversation_history, w.file_context)
    /\ ~FloatGt(w.file_context, w.conversation_history)
AdjustResidual ==
    call.remaining_budget
      - FloatMulIntExact(call.remaining_budget, call.weights.conversation_history)
      - FloatMulIntExact(call.remaining_budget, call.weights.file_context)

Document(file_path, source_code, tokens) ==
    [file_path |-> file_path,
     source_code |-> source_code,
     tokens |-> IF tokens # None THEN tokens[1] ELSE count_tokens(source_code)]

\* Document(file_path, source_code): the default of the parameter tokens is -1.
DocumentDefault(file_path, source_code) ==
    Document(file_path, source_code, Some(-1))

_count_total_tokens(sources) ==
    SumSeq([i \in 1 .. Len(sources) |-> sources[i].tokens])

\* What the documents really cost: count_tokens of their content.
ContentTokens(sources) ==
    SumSeq([i \in 1 .. Len(sources) |-> count_tokens(sources[i].source_code)])

RECURSIVE DeleteLoop(_, _, _, _)
DeleteLoop(rest, pruned_sources, current_tokens, max_tokens) ==
    IF rest = <<>> THEN pruned_sources
    ELSE LET source == Head(rest) IN
         IF current_tokens + source.tokens <= max_tokens
         THEN DeleteLoop(Tail(rest), Append(pruned_sources, source),
                         current_tokens + source.tokens, max_tokens)
         ELSE pruned_sources

RECURSIVE DeleteLoopCheckBefore(_, _, _, _)
DeleteLoopCheckBefore(rest, pruned_sources, current_tokens, max_tokens) ==
    IF rest = <<>> THEN pruned_sources
    ELSE LET source == Head(rest) IN
         IF current_tokens <= max_tokens
         THEN DeleteLoopCheckBefore(Tail(rest), Append(pruned_sources, source),
                                    current_tokens + source.tokens, max_tokens)
         ELSE pruned_sources

DeletePruner_prune_check_before(max_tokens, file_sources) ==
    IF _count_total_tokens(file_sources) <= max_tokens THEN file_sources
    ELSE DeleteLoopCheckBefore(file_sources, <<>>, 0, max_tokens)

DeletePruner_prune(max_tokens, file_sources) ==
    LET total_tokens == _count_total_tokens(file_sources)
    IN IF total_tokens <= max_tokens THEN file_sources
       ELSE DeleteLoop(file_sources, <<>>, 0, max_tokens)

\* A constructor that lets a budget of zero through.
BasePruner_init_ok_zero(max_tokens) == max_tokens >= 0

\* BasePruner.__init__ refuses a budget that is not positive.
BasePruner_init_ok(max_tokens) == max_tokens > 0

(***************************************************************************)
(* SpecDelete: get_pruner("delete", max_tokens).prune(file_sources, _).    *)
(* A document reaches the pruner as retrieval builds it: with the token    *)
(* count of its index entry (None when the entry has none), or with -1     *)
(* when the file has no index entry (rag_entry.py, _get_files_content).    *)
(***************************************************************************)
DocLens == {30, 150, 240, 300}
TokenArgs == {None, Some(-1)}

DocsOfLen(n) ==
    {[i \in 1 .. n |-> Document(i, Text("file", i, l[i]), t[i])] :
        l \in [1 .. n -> DocLens], t \in [1 .. n -> TokenArgs]}

DocLists == UNION {DocsOfLen(n) : n \in 0 .. MaxDocs}

DeleteBudgets == {-1, 0, 9, 10, 60, 140, 150, 230}

InitDelete ==
    /\ call \in [op : {"DeletePruner.prune"}, max_tokens : DeleteBudgets,
                 file_sources : DocLists]
    /\ ret = Pending
    /\ pc = "call"
    /\ frame = NoFrame
    /\ ExtractIdle

DeletePrune ==
    /\ call.op = "DeletePruner.prune"
    /\ ret = Pending
    /\ pc' = "done"
    /\ UNCHANGED <<frame, extractVars>>
    /\ ret' = IF BasePruner_init_ok(call.max_tokens)
              THEN Return(DeletePruner_prune(call.max_tokens, call.file_sources))
              ELSE Raise("ValueError")
    /\ UNCHANGED call

NextDelete == DeletePrune

SpecDelete == InitDelete /\ [][NextDelete]_vars

DeleteDone == call.op = "DeletePruner.prune" /\ ret # Pending

\* The prefixes of the input whose content costs at most max_tokens.
FittingPrefixes ==
    {n \in 0 .. Len(call.file_sources) :
        ContentTokens(Prefix(call.file_sources, n)) <= call.max_tokens}

\* C7: the result is the longest prefix of the input whose cumulative token
\* cost is at most max_tokens, and the returned total never exceeds max_tokens.
C7_LongestFittingPrefix ==
    (DeleteDone /\ ret.kind = "return")
    => /\ ContentTokens(ret.value) <= call.max_tokens
       /\ \E n \in FittingPrefixes :
            /\ ret.value = Prefix(call.file_sources, n)
            /\ \A m \in FittingPrefixes : m <= n

\* C7 on documents whose token count is the count of their content.
CountedDocs ==
    \A i \in 1 .. Len(call.file_sources) :
        call.file_sources[i].tokens = count_tokens(call.file_sources[i].source_code)

C7_LongestFittingPrefixOfCounted ==
    CountedDocs => C7_LongestFittingPrefix

\* The documents of the example: 100, 50 and 80 tokens, counts supplied.
docA == Document(1, Text("file", 1, 300), Some(100))
docB == Document(2, Text("file", 2, 150), Some(50))
docC == Document(3, Text("file", 3, 240), Some(80))

DeleteExample ==
    /\ DeleteDone
    /\ call.file_sources = <<docA, docB, docC>>
    /\ call.max_tokens = 140

\* C8 as stated: [docA(100), docB(50), docC(80)] with budget 140 gives
\* [docA, docB].
C8_ExampleKeepsAB ==
    DeleteExample => (ret.kind = "return" /\ ret.value = <<docA, docB>>)

\* C8 amended: the same input gives [docA]; docB would bring the total to
\* 150 > 140, so docB and docC are dropped.
C8_ExampleKeepsA ==
    DeleteExample => (ret.kind = "return" /\ ret.value = <<docA>>)

\* The example has been pruned.
C8_Witness ==
    DeleteExample /\ ret.kind = "return" /\ Len(ret.value) = 1

(***************************************************************************)
(* context/context_builder.py: ContextBuilder._prune_conversation_history  *)
(***************************************************************************)
Message(role, content) == [role |-> role, content |-> content]

\* The loop over reversed(conversations): rest is what is still to be
\* visited, oldest first, so the message visited next is its last one.
RECURSIVE HistoryLoop(_, _, _, _)
HistoryLoop(rest, pruned_history, current_tokens, budget) ==
    IF rest = <<>> THEN pruned_history
    ELSE LET msg == rest[Len(rest)]
             msg_tokens == count_tokens(msg.content)
         IN IF current_tokens + msg_tokens <= budget
            THEN HistoryLoop(Prefix(rest, Len(rest) - 1), <<msg>> \o pruned_history,
                             current_tokens + msg_tokens, budget)
            ELSE pruned_history

RECURSIVE HistoryLoopStrict(_, _, _, _)
HistoryLoopStrict(rest, pruned_history, current_tokens, budget) ==
    IF rest = <<>> THEN pruned_history
    ELSE LET msg == rest[Len(rest)]
             msg_tokens == count_tokens(msg.content)
         IN IF current_tokens + msg_tokens < budget
            THEN HistoryLoopStrict(Prefix(rest, Len(rest) - 1),
                                   <<msg>> \o pruned_history,
                                   current_tokens + msg_tokens, budget)
            ELSE pruned_history

RECURSIVE HistoryLoopSkip(_, _, _, _)
HistoryLoopSkip(rest, pruned_history, current_tokens, budget) ==
    IF rest = <<>> THEN pruned_history
    ELSE LET msg == rest[Len(rest)]
             msg_tokens == count_tokens(msg.content)
         IN IF current_tokens + msg_tokens <= budget
            THEN HistoryLoopSkip(Prefix(rest, Len(rest) - 1),
                                 <<msg>> \o pruned_history,
                                 current_tokens + msg_tokens, budget)
            ELSE HistoryLoopSkip(Prefix(rest, Len(rest) - 1), pruned_history,
                                 current_tokens, budget)

_prune_conversation_history_strict(conversations, budget) ==
    HistoryLoopStrict(conversations, <<>>, 0, budget)

_prune_conversation_history_skip(conversations, budget) ==
    HistoryLoopSkip(conversations, <<>>, 0, budget)

_prune_conversation_history(conversations, budget) ==
    HistoryLoop(conversations, <<>>, 0, budget)

(***************************************************************************)
(* SpecHistory: the history pruner applied to bounded conversations and    *)
(* to the budgets a ContextBudget can hand it (0 and up).                  *)
(***************************************************************************)
MsgLens == {0, 15, 30, 60, 150}

RoleAt(i) == IF i % 2 = 1 THEN "user" ELSE "assistant"

ConversationsOfLen(n) ==
    {[i \in 1 .. n |-> Message(RoleAt(i), Text("message", i, l[i]))] : l \in [1 .. n -> MsgLens]}

Conversations == UNION {ConversationsOfLen(n) : n \in 0 .. MaxMsgs}

InitHistory ==
    /\ call \in [op : {"_prune_conversation_history"},
                 conversations : Conversations,
                 budget : 0 .. MaxHistoryBudget]
    /\ ret = Pending
    /\ pc = "call"
    /\ frame = NoFrame
    /\ ExtractIdle

PruneHistory ==
    /\ call.op = "_prune_conversation_history"
    /\ ret = Pending
    /\ pc' = "done"
    /\ UNCHANGED <<frame, extractVars>>
    /\ ret' = Return(_prune_conversation_history(call.conversations, call.budget))
    /\ UNCHANGED call

NextHistory == PruneHistory

SpecHistory == InitHistory /\ [][NextHistory]_vars

HistoryDone == call.op = "_prune_conversation_history" /\ ret # Pending

MessageTokens(msgs) ==
    SumSeq([i \in 1 .. Len(msgs) |-> count_tokens(msgs[i].content)])

Costs(msgs) == [i \in 1 .. Len(msgs) |-> count_tokens(msgs[i].content)]

\* The lengths of the suffixes of the conversation that fit the budget.
FittingSuffixes ==
    {n \in 0 .. Len(call.conversations) :
        MessageTokens(Suffix(call.conversations, n)) <= call.budget}

\* C9: the result is a contiguous suffix of the conversation in its original
\* order, it costs at most the budget, and no longer suffix fits.
C9_LongestFittingSuffix ==
    HistoryDone
    => /\ MessageTokens(ret.value) <= call.budget
       /\ \E n \in FittingSuffixes :
            /\ ret.value = Suffix(call.conversations, n)
            /\ \A m \in FittingSuffixes : m <= n

\* Some but not all messages were retained.
C9_Witness ==
    /\ HistoryDone
    /\ Len(ret.value) > 1
    /\ Len(ret.value) < Len(call.conversations)
    /\ MessageTokens(ret.value) = call.budget

HistoryExample ==
    /\ HistoryDone
    /\ Costs(call.conversations) = <<10, 20, 5, 50>>
    /\ call.budget = 30

\* C10 as stated: a message that alone exceeds the budget is dropped alone and
\* pruning continues with the next-newest message, so an older message that
\* fits is still retained; costs [10,20,5,50] with budget 30 keep the message
\* of cost 5.
C10_OversizeDroppedAlone ==
    /\ HistoryDone
         => LET n == Len(call.conversations) IN
            (/\ n >= 2
             /\ count_tokens(call.conversations[n].content) > call.budget
             /\ count_tokens(call.conversations[n - 1].content) <= call.budget)
            => /\ \A k \in 1 .. Len(ret.value) : ret.value[k] # call.conversations[n]
               /\ \E k \in 1 .. Len(ret.value) : ret.value[k] = call.conversations[n - 1]
    /\ HistoryExample
         => \E k \in 1 .. Len(ret.value) : ret.value[k] = call.conversations[3]

\* C10 amended: a message that alone exceeds the budget is never split and
\* never returned, and the walk stops at it: no older message is retained
\* either; costs [10,20,5,50] with budget 30 give the empty history.
C10_OversizeStopsWalk ==
    /\ HistoryDone
         => /\ \A k \in 1 .. Len(ret.value) :
                 \E i \in 1 .. Len(call.conversations) :
                    ret.value[k] = call.conversations[i]
            /\ \A i \in 1 .. Len(call.conversations) :
                 count_tokens(call.conversations[i].content) > call.budget
                 => \A j \in 1 .. i : \A k \in 1 .. Len(ret.value) :
                       ret.value[k] # call.conversations[j]
    /\ HistoryExample => ret.value = <<>>

\* The example has been pruned: nothing is left although three messages fit.
C10_Witness ==
    HistoryExample /\ ret.value = <<>>

(***************************************************************************)
(* context/pruner.py: ExtractPruner                                        *)
(***************************************************************************)
score_threshold == 5

\* The response of the relevance oracle for one document, after parsing:
\* ok = FALSE when the call or the parsing raised, else the parsed items.
OracleError == [ok |-> FALSE, items |-> <<>>]
OracleItems(items) == [ok |-> TRUE, items |-> items]
Snippet(score, len) == [score |-> score, snippet |-> Text("snippet", score, len)]

\* The file path with identifier p is a string of six characters ("fp.dos").
PathLen(file_path) == 6

RECURSIVE Digits(_)
Digits(n) ==
    IF n < 0 THEN 1 + Digits(0 - n)
    ELSE IF n < 10 THEN 1 ELSE 1 + Digits(n \div 10)

\* list.sort(key=lambda x: x.score, reverse=True): stable, descending.
RECURSIVE InsertByScore(_, _)
InsertByScore(sorted, item) ==
    IF sorted = <<>> THEN <<item>>
    ELSE IF Head(sorted).score >= item.score
         THEN <<Head(sorted)>> \o InsertByScore(Tail(sorted), item)
         ELSE <<item>> \o sorted

RECURSIVE SortByScore(_)
SortByScore(items) ==
    IF items = <<>> THEN <<>>
    ELSE InsertByScore(SortByScore(Prefix(items, Len(items) - 1)), items[Len(items)])

\* "# Highly relevant snippets from {path} (filtered by score >= 5):\n"
\* followed, per snippet, by "\n# Relevance Score: {score}\n---\n{snippet}\n".
SnippetContent(file_path, snippets) ==
    [kind |-> "snippets",
     ref |-> file_path,
     parts |-> snippets,
     len |-> 32 + PathLen(file_path) + 27
             + SumSeq([i \in 1 .. Len(snippets) |->
                         20 + Digits(snippets[i].score) + 5
                            + snippets[i].snippet.len + 1])]
\* A filter that also drops the snippets scored exactly at the threshold.
IsHighScore_above(item) == item.score > score_threshold

IsHighScore(item) == item.score >= score_threshold
\* A task that hands back the document it was given when the oracle fails.
_process_single_large_file_keeps_original(file_source, response) ==
    IF ~response.ok THEN file_source
    ELSE LET high_score_snippets == SelectSeq(response.items, IsHighScore)
         IN IF high_score_snippets = <<>>
            THEN DocumentDefault(file_source.file_path, EmptyText)
            ELSE DocumentDefault(file_source.file_path,
                                 SnippetContent(file_source.file_path,
                                                SortByScore(high_score_snippets)))

_process_single_large_file(file_source, response) ==
    IF ~response.ok THEN DocumentDefault(file_source.file_path, EmptyText)
    ELSE LET high_score_snippets == SelectSeq(response.items, IsHighScore)
         IN IF high_score_snippets = <<>>
            THEN DocumentDefault(file_source.file_path, EmptyText)
            ELSE DocumentDefault(file_source.file_path,
                                 SnippetContent(file_source.file_path,
                                                SortByScore(high_score_snippets)))

full_file_threshold(max_tokens) == FloatMulInt(max_tokens, F080)

\* Step 1 of prune: the documents that fit under the threshold one after
\* the other are small, the others are large.
RECURSIVE Partition(_, _, _, _, _)
Partition(rest, small, large, current_tokens, threshold) ==
    IF rest = <<>> THEN [small |-> small, large |-> large]
    ELSE LET source == Head(rest) IN
         IF current_tokens + source.tokens <= threshold
         THEN Partition(Tail(rest), Append(small, source), large,
                        current_tokens + source.tokens, threshold)
         ELSE Partition(Tail(rest), small, Append(large, source),
                        current_tokens, threshold)

\* list.sort(key=lambda x: x.tokens): stable, ascending.
RECURSIVE InsertByTokens(_, _)
InsertByTokens(sorted, doc) ==
    IF sorted = <<>> THEN <<doc>>
    ELSE IF Head(sorted).tokens <= doc.tokens
         THEN <<Head(sorted)>> \o InsertByTokens(Tail(sorted), doc)
         ELSE <<doc>> \o sorted

RECURSIVE SortByTokens(_)
SortByTokens(docs) ==
    IF docs = <<>> THEN <<>>
    ELSE InsertByTokens(SortByTokens(Prefix(docs, Len(docs) - 1)), docs[Len(docs)])

\* Step 3 of prune: the guard reads source.tokens, the running total adds
\* count_tokens(source.source_code); a document that does not fit is skipped.
RECURSIVE BinPack(_, _, _, _)
BinPack(rest, final_sources, final_tokens, max_tokens) ==
    IF rest = <<>> THEN final_sources
    ELSE LET source == Head(rest) IN
         IF final_tokens + source.tokens <= max_tokens
         THEN BinPack(Tail(rest), Append(final_sources, source),
                      final_tokens + count_tokens(source.source_code), max_tokens)
         ELSE BinPack(Tail(rest), final_sources, final_tokens, max_tokens)

FinalSources(processed, max_tokens) ==
    BinPack(SortByTokens(processed), <<>>, 0, max_tokens)

\* Steps 1 and 2 up to the submission of the tasks: large_files += small_files,
\* one future per entry.
Dispatch(file_sources, max_tokens) ==
    LET split == Partition(file_sources, <<>>, <<>>, 0, full_file_threshold(max_tokens))
    IN /\ small_files' = split.small
       /\ large_files' = split.large \o split.small
       /\ futures' = 1 .. (Len(split.large) + Len(split.small))
       /\ processed_large_files' = <<>>

\* One worker finishes its task; as_completed hands its result to prune.
TaskComplete ==
    /\ pc = "collect"
    /\ \E i \in futures :
         /\ processed_large_files' =
              Append(processed_large_files,
                     _process_single_large_file(
                         large_files[i], call.oracle[large_files[i].file_path]))
         /\ futures' = futures \ {i}
    /\ UNCHANGED <<call, ret, pc, frame, small_files, large_files>>

(***************************************************************************)
(* SpecExtract: get_pruner("extract", max_tokens).prune(file_sources, _)   *)
(* with the oracle's response per document fixed by the input and the      *)
(* tasks completing in any order.                                          *)
(***************************************************************************)
ExtractDocLens == {30, 300}

ExtractDocsOfLen(n) ==
    {[i \in 1 .. n |-> Document(i, Text("file", i, l[i]), t[i])] :
        l \in [1 .. n -> ExtractDocLens], t \in [1 .. n -> TokenArgs]}

OracleResponses ==
    {OracleError,
     OracleItems(<<Snippet(3, 30)>>),
     OracleItems(<<Snippet(9, 60)>>),
     OracleItems(<<Snippet(7, 30), Snippet(9, 300)>>),
     OracleItems(<<Snippet(9, 30), Snippet(3, 30), Snippet(7, 30), Snippet(5, 30)>>)}

ExtractBudgets == {-1, 0, 10, 60, 200}

ExtractCalls(n) ==
    [op : {"ExtractPruner.prune"}, max_tokens : ExtractBudgets,
     file_sources : ExtractDocsOfLen(n), oracle : [1 .. n -> OracleResponses]]

InitExtract ==
    /\ call \in UNION {ExtractCalls(n) : n \in 0 .. MaxExtractDocs}
    /\ ret = Pending
    /\ pc = "call"
    /\ frame = NoFrame
    /\ ExtractIdle

\* Python's None, as an entry of file_sources and as what a call returns
\* when it ends without a return statement.
PyNone == [kind |-> "None"]
ReturnNone == [kind |-> "none"]

HasNoneSource(file_sources) ==
    \E k \in 1 .. Len(file_sources) : file_sources[k] = PyNone

\* The handler of an unexpected error, had it a 'return file_sources'.
OnPruneError_returns_sources(file_sources) == Return(file_sources)

\* except Exception: print the traceback and the message, then fall off the
\* end of the function.
OnPruneError(file_sources) == ReturnNone

\* A None entry makes source.tokens raise inside the try block, before any
\* task is submitted.
ExtractStart ==
    /\ call.op = "ExtractPruner.prune"
    /\ pc = "call"
    /\ IF ~BasePruner_init_ok(call.max_tokens)
       THEN /\ ret' = Raise("ValueError")
            /\ pc' = "done"
            /\ UNCHANGED extractVars
       ELSE IF HasNoneSource(call.file_sources)
       THEN /\ ret' = OnPruneError(call.file_sources)
            /\ pc' = "done"
            /\ UNCHANGED extractVars
       ELSE /\ Dispatch(call.file_sources, call.max_tokens)
            /\ pc' = "collect"
            /\ UNCHANGED ret
    /\ UNCHANGED <<call, frame>>
\* A prune that sorts and packs what has come in without waiting for the rest.
ExtractFinish_without_join ==
    /\ call.op = "ExtractPruner.prune"
    /\ pc = "collect"
    /\ ret' = Return(FinalSources(processed_large_files, call.max_tokens))
    /\ pc' = "done"
    /\ UNCHANGED <<call, frame, extractVars>>

ExtractFinish ==
    /\ call.op = "ExtractPruner.prune"
    /\ pc = "collect"
    /\ futures = {}
    /\ ret' = Return(FinalSources(processed_large_files, call.max_tokens))
    /\ pc' = "done"
    /\ UNCHANGED <<call, frame, extractVars>>

NextExtract == ExtractStart \/ TaskComplete \/ ExtractFinish

SpecExtract == InitExtract /\ [][NextExtract]_vars

ExtractDone == call.op = "ExtractPruner.prune" /\ pc = "done"

\* C3: the documents ExtractPruner.prune returns fit: count_tokens of their
\* contents sums to at most max_tokens.
C3_ExtractResultFits ==
    (ExtractDone /\ ret.kind = "return")
    => ContentTokens(ret.value) <= call.max_tokens

(***************************************************************************)
(* context/context_builder.py: ContextBuilder                              *)
(***************************************************************************)
\* ContextBuilder.__init__: self.safe_zone = int(max_window_size * 0.9)
safe_zone(max_window_size) == FloatMulInt(max_window_size, F090)

Min(a, b) == IF a < b THEN a ELSE b

\* int(budget * avg_chars_per_token * 0.95) with avg = len(prompt) / tokens
\* (4 when the prompt has no token).  The two float products and the float
\* division round; when the exact value is an integer the computed one may
\* fall just below it, so both truncations are outcomes.
SafeChars(prompt, budget) ==
    LET tokens == count_tokens(prompt)
        num == IF tokens > 0 THEN budget * prompt.len * 19 ELSE budget * 4 * 19
        den == IF tokens > 0 THEN tokens * 20 ELSE 20
        exact == num \div den
    IN IF num % den = 0 /\ exact > 0 /\ F095.sign < 0
       THEN {exact - 1, exact} ELSE {exact}

\* A truncation that marks the cut with "..." instead of returning a slice.
_prune_system_prompt_with_ellipsis(prompt, budget, safe_chars) ==
    IF count_tokens(prompt) > budget
    THEN [prompt EXCEPT !.len = Min(prompt.len, safe_chars) + 3,
                        !.parts = <<"...">>]
    ELSE prompt

\* _prune_system_prompt once safe_chars is computed: prompt[:safe_chars].
_prune_system_prompt(prompt, budget, safe_chars) ==
    IF count_tokens(prompt) > budget
    THEN [prompt EXCEPT !.len = Min(prompt.len, safe_chars)]
    ELSE prompt

\* "<CONTEXT_FILES>\n" + "\n---\n".join("File: {path}\n\n{source_code}")
\* + "\n</CONTEXT_FILES>"
ContextFilesText(pruned_file_sources) ==
    [kind |-> "context_files",
     ref |-> 0,
     parts |-> pruned_file_sources,
     len |-> 16 + SumSeq([i \in 1 .. Len(pruned_file_sources) |->
                            6 + PathLen(pruned_file_sources[i].file_path) + 2
                              + pruned_file_sources[i].source_code.len])
                + 5 * (Len(pruned_file_sources) - 1) + 17]

\* Step 5 of build.
FinalMessages(system_prompt, pruned_file_sources, pruned_conversations) ==
    <<Message("system", system_prompt)>>
      \o (IF pruned_file_sources # <<>>
          THEN <<Message("assistant", ContextFilesText(pruned_file_sources))>>
          ELSE <<>>)
      \o pruned_conversations

Strategies == {"delete", "extract"}

(***************************************************************************)
(* SpecBuild: ContextBuilder(model, max_window_size).build(...) for        *)
(* bounded inputs; with the extract strategy the extraction tasks complete *)
(* in any order before build returns.                                      *)
(***************************************************************************)
BuildWindows == {14, 20, 45, 100, 196, 400}
BuildPromptLens == {30, 120}
BuildMsgLens == {30, 150}
BuildOracleResponses ==
    {OracleError, OracleItems(<<Snippet(9, 60)>>),
     OracleItems(<<Snippet(7, 30), Snippet(9, 300)>>)}

BuildConversations ==
    UNION {{[i \in 1 .. n |-> Message(RoleAt(i), Text("message", i, l[i]))] :
               l \in [1 .. n -> BuildMsgLens]} : n \in 0 .. MaxBuildMsgs}

BuildDocsOfLen(n) ==
    {[i \in 1 .. n |-> Document(i, Text("file", i, 300), t[i])] :
        t \in [1 .. n -> TokenArgs]}

BuildCalls(n) ==
    [op : {"build"},
     max_window_size : BuildWindows,
     system_prompt : {Text("prompt", 0, l) : l \in BuildPromptLens},
     conversations : BuildConversations,
     file_sources : BuildDocsOfLen(n),
     oracle : [1 .. n -> BuildOracleResponses],
     task_type : TaskTypeArgs,
     file_pruning_strategy : Strategies \cup {"summarize"}]

InitBuild ==
    /\ call \in UNION {BuildCalls(n) : n \in 0 .. MaxExtractDocs}
    /\ ret = Pending
    /\ pc = "call"
    /\ frame = NoFrame
    /\ ExtractIdle

\* build up to its return, or up to the submission of the extraction tasks.
Build ==
    /\ call.op = "build"
    /\ pc = "call"
    /\ LET zone == safe_zone(call.max_window_size)
           system_prompt_tokens == count_tokens(call.system_prompt)
           budget == ContextBudget(zone, system_prompt_tokens, call.task_type)
       IN IF budget.kind = "raise"
          THEN /\ \E safe_chars \in SafeChars(call.system_prompt, zone) :
                    ret' = Return(<<Message("system",
                               _prune_system_prompt(call.system_prompt, zone, safe_chars))>>)
               /\ pc' = "done"
               /\ UNCHANGED <<frame, extractVars>>
          ELSE LET pruned_conversations ==
                       _prune_conversation_history(call.conversations,
                                                   budget.value.history_budget)
                   max_tokens == budget.value.file_context_budget
               IN IF \/ call.file_pruning_strategy \notin Strategies
                     \/ ~BasePruner_init_ok(max_tokens)
                  THEN /\ ret' = Raise("ValueError")
                       /\ pc' = "done"
                       /\ UNCHANGED <<frame, extractVars>>
                  ELSE IF call.file_pruning_strategy = "delete"
                  THEN /\ ret' = Return(FinalMessages(
                                    call.system_prompt,
                                    DeletePruner_prune(max_tokens, call.file_sources),
                                    pruned_conversations))
                       /\ pc' = "done"
                       /\ UNCHANGED <<frame, extractVars>>
                  ELSE /\ Dispatch(call.file_sources, max_tokens)
                       /\ frame' = [fn |-> "build",
                                    budget |-> budget.value,
                                    pruned_conversations |-> pruned_conversations]
                       /\ pc' = "collect"
                       /\ UNCHANGED ret
    /\ UNCHANGED call

\* All tasks are in: steps 3 of prune and 5 of build.
BuildFinish ==
    /\ call.op = "build"
    /\ pc = "collect"
    /\ futures = {}
    /\ ret' = Return(FinalMessages(
                  call.system_prompt,
                  FinalSources(processed_large_files, frame.budget.file_context_budget),
                  frame.pruned_conversations))
    /\ pc' = "done"
    /\ UNCHANGED <<call, frame, extractVars>>

NextBuild == Build \/ TaskComplete \/ BuildFinish

SpecBuild == InitBuild /\ [][NextBuild]_vars

BuildDone == call.op = "build" /\ pc = "done"

\* C2: whenever build returns, the token costs of the returned messages sum
\* to at most the safe zone, 0.9 of the maximum window size.
C2_ContextFitsSafeZone ==
    (BuildDone /\ ret.kind = "return")
    => MessageTokens(ret.value) <= safe_zone(call.max_window_size)

(***************************************************************************)
(* SpecPruneOrBuild: the extraction is entered either directly through     *)
(* ExtractPruner.prune or through ContextBuilder.build.                    *)
(***************************************************************************)
InitPruneOrBuild == InitExtract \/ InitBuild

NextPruneOrBuild == NextExtract \/ NextBuild

SpecPruneOrBuild == InitPruneOrBuild /\ [][NextPruneOrBuild]_vars

\* The results handed in so far for the document submitted as task i.
ResultsOf(i) ==
    {k \in 1 .. Len(processed_large_files) :
        processed_large_files[k].file_path = large_files[i].file_path}

Completed == (1 .. Len(large_files)) \ futures

OracleFailed(i) == ~call.oracle[large_files[i].file_path].ok

HighScoreItems(i) ==
    {call.oracle[large_files[i].file_path].items[n] :
        n \in {m \in 1 .. Len(call.oracle[large_files[i].file_path].items) :
                 call.oracle[large_files[i].file_path].items[m].score >= 5}}

SeqRange(s) == {s[n] : n \in 1 .. Len(s)}

IsPrefixOf(text, prompt) ==
    /\ text.kind = prompt.kind /\ text.ref = prompt.ref
    /\ text.parts = prompt.parts
    /\ text.len >= 0 /\ text.len <= prompt.len

PromptFillsZone ==
    count_tokens(call.system_prompt) >= safe_zone(call.max_window_size)

\* C12: when the system prompt's token count is at least the safe zone,
\* build does not raise and returns exactly one message, of role system,
\* whose content is a character-level prefix of the system prompt; no
\* history message and no document message is returned.
C12_OversizePromptAlone ==
    (BuildDone /\ PromptFillsZone) =>
        /\ ret.kind = "return"
        /\ Len(ret.value) = 1
        /\ ret.value[1].role = "system"
        /\ IsPrefixOf(ret.value[1].content, call.system_prompt)

\* The prompt was cut although history and documents were supplied.
C12_Witness ==
    /\ BuildDone /\ PromptFillsZone
    /\ ret.kind = "return"
    /\ ret.value[1].content.len < call.system_prompt.len
    /\ call.conversations # <<>> /\ call.file_sources # <<>>
    /\ call.task_type \in TaskTypes

\* The boundary: the prompt costs exactly the safe zone and is returned whole.
C12_WitnessBoundary ==
    /\ BuildDone
    /\ count_tokens(call.system_prompt) = safe_zone(call.max_window_size)
    /\ ret.kind = "return"
    /\ ret.value[1].content = call.system_prompt

BuildBudget ==
    ContextBudget(safe_zone(call.max_window_size),
                  count_tokens(call.system_prompt), call.task_type).value

\* What the document pruner handed back to build.
BuildPrunedDocs ==
    IF call.file_pruning_strategy = "delete"
    THEN DeletePruner_prune(BuildBudget.file_context_budget, call.file_sources)
    ELSE FinalSources(processed_large_files, BuildBudget.file_context_budget)

\* The retained history: the newest messages of the conversation, oldest first.
BuildPrunedHistory ==
    CHOOSE s \in {Suffix(call.conversations, n) : n \in 0 .. Len(call.conversations)} :
        /\ MessageTokens(s) <= BuildBudget.history_budget
        /\ \/ Len(s) = Len(call.conversations)
           \/ MessageTokens(Suffix(call.conversations, Len(s) + 1))
                > BuildBudget.history_budget

BuildOutputShape ==
    /\ ret.kind = "return"
    /\ Len(ret.value) >= 1
    /\ ret.value[1] = [role |-> "system", content |-> call.system_prompt]
    /\ IF BuildPrunedDocs # <<>>
       THEN /\ Len(ret.value) >= 2
            /\ ret.value[2].role = "assistant"
            /\ ret.value[2].content.kind = "context_files"
            /\ ret.value[2].content.parts = BuildPrunedDocs
            /\ SubSeq(ret.value, 3, Len(ret.value)) = BuildPrunedHistory
       ELSE SubSeq(ret.value, 2, Len(ret.value)) = BuildPrunedHistory

InBuildDomain ==
    /\ call.task_type \in {"default", "coding", "chat"}
    /\ call.file_pruning_strategy \in {"delete", "extract"}

\* C13: every build call (task type and strategy among the documented ones)
\* whose system prompt costs less than the safe zone returns the system
\* message with exactly the given prompt, then one CONTEXT_FILES message iff
\* the document pruner returned at least one document, then the pruned
\* history in chronological order.
C13_BuildReturnsAssembledContext ==
    (BuildDone /\ ~PromptFillsZone /\ InBuildDomain) => BuildOutputShape

\* Whenever such a call does return, its result has that shape.
C13_ShapeWhenReturned ==
    (BuildDone /\ ~PromptFillsZone /\ InBuildDomain /\ ret.kind = "return")
    => BuildOutputShape

\* A call of the documented domain that ends with an exception.
C13_RaisesInDomain ==
    /\ BuildDone /\ ~PromptFillsZone /\ InBuildDomain
    /\ ret.kind = "raise"
    /\ BuildBudget.file_context_budget <= 0

\* The results of the tasks when they complete in the order of submission.
InSubmissionOrder ==
    [i \in 1 .. Len(large_files) |->
        _process_single_large_file(large_files[i],
                                   call.oracle[large_files[i].file_path])]

\* C14: for a fixed document list, budget and oracle responses, the set of
\* documents ExtractPruner.prune returns is the same under every completion
\* order of the tasks: it is the one returned when the tasks complete in the
\* order of their submission.
C14_SameUnderEveryCompletionOrder ==
    (ExtractDone /\ ret.kind = "return")
    => SeqRange(ret.value)
         = SeqRange(FinalSources(InSubmissionOrder, call.max_tokens))

\* The completion order at least never changes what the tasks produced.
C14_SameProcessedDocuments ==
    (ExtractDone /\ ret.kind = "return")
    => SeqRange(processed_large_files) = SeqRange(InSubmissionOrder)

\* C15: the final sort and bin-pack start only after every dispatched task
\* has completed or failed: the step that leaves the collection loop is
\* taken with no task in flight and with the result of every dispatched
\* task collected, and it is the step that sets the return value.
C15_PackOnlyAfterAllTasks ==
    [][(pc = "collect" /\ pc' # "collect") =>
          /\ futures = {}
          /\ Len(processed_large_files) = Len(large_files)
          /\ SeqRange(processed_large_files) = SeqRange(InSubmissionOrder)
          /\ ret.kind = "pending" /\ ret'.kind = "return"
          /\ processed_large_files' = processed_large_files]_vars

\* The same as a state predicate: no return value exists while a task is in
\* flight.
C15_NoReturnInFlight ==
    (futures # {}) => (pc = "collect" /\ ret.kind = "pending")

\* prune has returned after two tasks that completed out of submission order.
C15_Witness ==
    /\ ExtractDone /\ ret.kind = "return"
    /\ Len(large_files) >= 2
    /\ Len(processed_large_files) = Len(large_files)
    /\ processed_large_files[1].file_path # large_files[1].file_path
    /\ futures = {}

(***************************************************************************)
(* SpecPruners: get_pruner(strategy, max_tokens).prune(file_sources, _)    *)
(* for both strategies.                                                    *)
(***************************************************************************)
InitPruners == InitDelete \/ InitExtract

NextPruners == NextDelete \/ NextExtract

SpecPruners == InitPruners /\ [][NextPruners]_vars

\* C16: a Delete or Extract pruner constructed with max_tokens <= 0 fails at
\* once with an error: the only step taken raises ValueError, no document
\* is partitioned or returned and no extraction task is ever dispatched.
C16_NonPositiveBudgetFailsFast ==
    (call.max_tokens <= 0) =>
        /\ pc \in {"call", "done"}
        /\ pc = "call" => ret = Pending
        /\ pc = "done" => ret = Raise("ValueError")
        /\ small_files = <<>> /\ large_files = <<>>
        /\ futures = {} /\ processed_large_files = <<>>

\* The Extract pruner refused a budget of zero although documents were given.
C16_Witness ==
    /\ call.op = "ExtractPruner.prune" /\ call.max_tokens = 0
    /\ call.file_sources # <<>>
    /\ pc = "done" /\ ret = Raise("ValueError")

\* The Delete pruner refused a negative budget although documents were given.
C16_WitnessDelete ==
    /\ call.op = "DeletePruner.prune" /\ call.max_tokens < 0
    /\ call.file_sources # <<>>
    /\ pc = "done" /\ ret = Raise("ValueError")

\* C17: a Document constructed without an explicit token count has the
\* token count of its content: the documents retrieval hands in (built with
\* the index entry's missing count or with the 'not supplied' value -1) and
\* the documents the extraction tasks build.
C17_TokensComputedWhenNotSupplied ==
    /\ \A k \in 1 .. Len(call.file_sources) :
         call.file_sources[k].tokens
           = count_tokens(call.file_sources[k].source_code)
    /\ \A k \in 1 .. Len(processed_large_files) :
         processed_large_files[k].tokens
           = count_tokens(processed_large_files[k].source_code)

\* The part of it that holds: a count of None is replaced by the count of
\* the content.
C17_NoneIsCounted ==
    \A source_code \in {Text("file", 1, l) : l \in ExtractDocLens} :
        Document(1, source_code, None).tokens = count_tokens(source_code)

\* A task has built a document with content whose count is still -1.
C17_ExtractedDocumentUncounted ==
    \E k \in 1 .. Len(processed_large_files) :
        /\ processed_large_files[k].source_code.len > 0
        /\ processed_large_files[k].tokens = -1

Scores(items) == [n \in 1 .. Len(items) |-> items[n].score]

OracleOf(i) == call.oracle[large_files[i].file_path]

\* C18: every snippet scored below 5 is dropped and the others are emitted
\* in descending score order (scores [9,3,7,5] yield the snippets scored
\* 9, 7, 5 in that order); a document none of whose snippets survives
\* becomes a document with the same identifier and empty content.
C18_ScoreFilterAndOrder ==
    \A i \in Completed : \A k \in ResultsOf(i) :
        LET result == processed_large_files[k]
            emitted == result.source_code.parts
        IN OracleOf(i).ok =>
             /\ result.file_path = large_files[i].file_path
             /\ \A n \in 1 .. Len(emitted) : emitted[n].score >= 5
             /\ \A n \in 1 .. Len(emitted) - 1 :
                  emitted[n].score >= emitted[n + 1].score
             /\ SeqRange(emitted) = HighScoreItems(i)
             /\ Len(emitted) = Cardinality(HighScoreItems(i))
             /\ Scores(OracleOf(i).items) = <<9, 3, 7, 5>>
                  => Scores(emitted) = <<9, 7, 5>>
             /\ HighScoreItems(i) = {} => result.source_code = EmptyText
             /\ HighScoreItems(i) # {} => result.source_code.kind = "snippets"

\* The task of the example has completed.
C18_Witness ==
    \E i \in Completed : \E k \in ResultsOf(i) :
        /\ Scores(OracleOf(i).items) = <<9, 3, 7, 5>>
        /\ Scores(processed_large_files[k].source_code.parts) = <<9, 7, 5>>

\* A task whose only snippet scored 3 has completed with an empty document.
C18_WitnessEmpty ==
    \E i \in Completed : \E k \in ResultsOf(i) :
        /\ OracleOf(i).ok /\ OracleOf(i).items # <<>>
        /\ HighScoreItems(i) = {}
        /\ processed_large_files[k].source_code = EmptyText

(***************************************************************************)
(* context/code_extractor_pruner.py (and the copy in context/pruner.py):   *)
(* _merge_overlapping_snippets.  A snippet is a dict object; heap[r] is    *)
(* the dict with reference r and a list is a sequence of references, so    *)
(* that the assignment last["end_line"] = ... is seen through every list   *)
(* that holds the dict.                                                    *)
(***************************************************************************)
MaxRanges == 3
MaxLine == 4

Range(start_line, end_line) == [start_line |-> start_line, end_line |-> end_line]

Max(a, b) == IF a > b THEN a ELSE b

Deref(heap, refs) == [n \in 1 .. Len(refs) |-> heap[refs[n]]]

\* sorted(snippets, key=lambda x: x["start_line"]): stable, ascending.
RECURSIVE InsertByStart(_, _, _)
InsertByStart(heap, sorted, ref) ==
    IF sorted = <<>> THEN <<ref>>
    ELSE IF heap[Head(sorted)].start_line <= heap[ref].start_line
         THEN <<Head(sorted)>> \o InsertByStart(heap, Tail(sorted), ref)
         ELSE <<ref>> \o sorted

RECURSIVE SortByStart(_, _)
SortByStart(heap, refs) ==
    IF refs = <<>> THEN <<>>
    ELSE InsertByStart(heap, SortByStart(heap, Prefix(refs, Len(refs) - 1)),
                       refs[Len(refs)])

\* The loop over sorted_snippets[1:].
RECURSIVE MergeLoop(_, _, _)
MergeLoop(heap, rest, merged) ==
    IF rest = <<>> THEN [heap |-> heap, merged |-> merged]
    ELSE LET current == Head(rest)
             last == merged[Len(merged)]
         IN IF heap[current].start_line <= heap[last].end_line + 1
            THEN MergeLoop([heap EXCEPT ![last].end_line =
                                 Max(heap[last].end_line, heap[current].end_line)],
                           Tail(rest), merged)
            ELSE MergeLoop(heap, Tail(rest), Append(merged, current))

\* A merger that joins overlapping ranges only, not adjacent ones.
RECURSIVE MergeLoopOverlapOnly(_, _, _)
MergeLoopOverlapOnly(heap, rest, merged) ==
    IF rest = <<>> THEN [heap |-> heap, merged |-> merged]
    ELSE LET current == Head(rest)
             last == merged[Len(merged)]
         IN IF heap[current].start_line <= heap[last].end_line
            THEN MergeLoopOverlapOnly(
                     [heap EXCEPT ![last].end_line =
                          Max(heap[last].end_line, heap[current].end_line)],
                     Tail(rest), merged)
            ELSE MergeLoopOverlapOnly(heap, Tail(rest), Append(merged, current))

_merge_overlapping_snippets_overlap_only(heap, snippets) ==
    IF snippets = <<>> THEN [heap |-> heap, merged |-> <<>>]
    ELSE LET sorted_snippets == SortByStart(heap, snippets)
         IN MergeLoopOverlapOnly(heap, Tail(sorted_snippets), <<Head(sorted_snippets)>>)

\* A merger that compares each range with the range before it in the sorted
\* input instead of with the last merged range.
RECURSIVE MergeLoopPrevInput(_, _, _, _)
MergeLoopPrevInput(heap, prev, rest, merged) ==
    IF rest = <<>> THEN [heap |-> heap, merged |-> merged]
    ELSE LET current == Head(rest)
             last == merged[Len(merged)]
         IN IF heap[current].start_line <= prev.end_line + 1
            THEN MergeLoopPrevInput(
                     [heap EXCEPT ![last].end_line =
                          Max(heap[last].end_line, heap[current].end_line)],
                     heap[current], Tail(rest), merged)
            ELSE MergeLoopPrevInput(heap, heap[current], Tail(rest),
                                    Append(merged, current))

_merge_overlapping_snippets_prev_input(heap, snippets) ==
    IF snippets = <<>> THEN [heap |-> heap, merged |-> <<>>]
    ELSE LET sorted_snippets == SortByStart(heap, snippets)
         IN MergeLoopPrevInput(heap, heap[Head(sorted_snippets)],
                               Tail(sorted_snippets), <<Head(sorted_snippets)>>)

\* The call: the heap after it and the list it returns.
_merge_overlapping_snippets(heap, snippets) ==
    IF snippets = <<>> THEN [heap |-> heap, merged |-> <<>>]
    ELSE LET sorted_snippets == SortByStart(heap, snippets)
         IN MergeLoop(heap, Tail(sorted_snippets), <<Head(sorted_snippets)>>)

(***************************************************************************)
(* SpecMerge: x is a list of line ranges as the oracle's parsed output     *)
(* gives them (nothing checks start_line <= end_line);                     *)
(* r1 = merge(x); r2 = merge(r1).                                          *)
(***************************************************************************)
MergeExample == <<Range(1, 5), Range(4, 10), Range(20, 25)>>

RangeLists ==
    UNION {[1 .. n -> {Range(s, e) : s, e \in 1 .. MaxLine}] : n \in 0 .. MaxRanges}
      \cup {MergeExample}

InitMerge ==
    /\ call \in [op : {"_merge_overlapping_snippets"}, snippets : RangeLists]
    /\ ret = Pending
    /\ pc = "call"
    /\ frame = [fn |-> "merge", heap |-> call.snippets,
                x |-> [n \in 1 .. Len(call.snippets) |-> n],
                r1 |-> <<>>, r2 |-> <<>>]
    /\ ExtractIdle

\* r1 = merge(x); ret is r1 as it reads when the call returns.
Merge ==
    /\ call.op = "_merge_overlapping_snippets"
    /\ pc = "call"
    /\ LET out == _merge_overlapping_snippets(frame.heap, frame.x)
       IN /\ frame' = [frame EXCEPT !.heap = out.heap, !.r1 = out.merged]
          /\ ret' = Return(Deref(out.heap, out.merged))
    /\ pc' = "merged"
    /\ UNCHANGED <<call, extractVars>>

\* r2 = merge(r1)
MergeAgain ==
    /\ call.op = "_merge_overlapping_snippets"
    /\ pc = "merged"
    /\ LET out == _merge_overlapping_snippets(frame.heap, frame.r1)
       IN frame' = [frame EXCEPT !.heap = out.heap, !.r2 = out.merged]
    /\ pc' = "done"
    /\ UNCHANGED <<call, ret, extractVars>>

NextMerge == Merge \/ MergeAgain

SpecMerge == InitMerge /\ [][NextMerge]_vars

MergeReturned == call.op = "_merge_overlapping_snippets" /\ pc \in {"merged", "done"}

\* The line numbers a list of ranges covers.
Covered(ranges) ==
    UNION {ranges[n].start_line .. ranges[n].end_line : n \in 1 .. Len(ranges)}

\* C19: the merger returns ranges sorted by start line, each starting more
\* than one line after the previous one ends, that cover exactly the line
\* numbers the input covers; [{1,5},{4,10},{20,25}] gives [{1,10},{20,25}].
C19_MergedRangesDisjointSameCover ==
    MergeReturned =>
        /\ \A n \in 1 .. Len(ret.value) - 1 :
             /\ ret.value[n].start_line <= ret.value[n + 1].start_line
             /\ ret.value[n + 1].start_line > ret.value[n].end_line + 1
        /\ Covered(ret.value) = Covered(call.snippets)
        /\ call.snippets = MergeExample
             => ret.value = <<Range(1, 10), Range(20, 25)>>

\* Three ranges given out of order were merged into fewer.
C19_Witness ==
    /\ MergeReturned
    /\ Len(call.snippets) = 3
    /\ call.snippets[1].start_line > call.snippets[2].start_line
    /\ \A n \in 1 .. 3 : call.snippets[n].start_line <= call.snippets[n].end_line
    /\ Len(ret.value) = 2

\* The example was merged.
C19_WitnessExample ==
    /\ MergeReturned /\ call.snippets = MergeExample
    /\ ret.value = <<Range(1, 10), Range(20, 25)>>

MergedTwice == call.op = "_merge_overlapping_snippets" /\ pc = "done"

\* C20: the merger maps the empty list to the empty list, and merging its
\* own result changes nothing: merge(merge(x)) == merge(x), both compared
\* after the second call and against merge(x) as first returned.
C20_MergeIdempotent ==
    /\ (MergeReturned /\ call.snippets = <<>>) => ret.value = <<>>
    /\ MergedTwice =>
         /\ Deref(frame.heap, frame.r2) = Deref(frame.heap, frame.r1)
         /\ Deref(frame.heap, frame.r2) = ret.value

\* A list of three ranges that the first merge reduced was merged twice.
C20_Witness ==
    /\ MergedTwice
    /\ Len(call.snippets) = 3
    /\ Len(ret.value) = 2
    /\ Deref(frame.heap, frame.r2) = ret.value

\* The empty list was merged twice.
C20_WitnessEmpty ==
    /\ MergedTwice /\ call.snippets = <<>>
    /\ ret.value = <<>> /\ frame.r2 = <<>>

(***************************************************************************)
(* context/code_extractor_pruner.py: CodeExtractorPruner                   *)
(***************************************************************************)
MaxCodeFiles == 2

\* Document of code_extractor_pruner.py: -1 stands for "count it".
CodeDocument(file_path, source_code, tokens) ==
    [file_path |-> file_path, source_code |-> source_code,
     tokens |-> IF tokens # -1 THEN tokens ELSE count_tokens(source_code)]

\* A source file of nlines lines of nine characters each, joined by "\n".
CodeText(ref, nlines) ==
    [kind |-> "code", ref |-> ref, parts |-> <<>>,
     len |-> IF nlines = 0 THEN 0 ELSE 10 * nlines - 1, nlines |-> nlines]

\* One snippet of _build_snippet_content: the header
\* "\n# ... (lines {start + 1}-{end}) ...\n" and the lines[start:end].
SnippetPart(nlines, snippet) ==
    LET start == Max(0, snippet.start_line - 1)
        end == Min(nlines, snippet.end_line)
    IN [from |-> start + 1, to |-> end,
        shown |-> Max(0, end - start),
        header |-> 21 + Digits(start + 1) + Digits(end)]

\* "\n".join(["# Snippets from the original file:\n", header, lines..., ...])
_build_snippet_content(original_code, snippets) ==
    LET parts == [n \in 1 .. Len(snippets) |->
                     SnippetPart(original_code.nlines, snippets[n])]
        strings == 1 + SumSeq([n \in 1 .. Len(parts) |-> 1 + parts[n].shown])
    IN [kind |-> "code_snippets", ref |-> original_code.ref, parts |-> parts,
        len |-> 35 + SumSeq([n \in 1 .. Len(parts) |->
                               parts[n].header + 9 * parts[n].shown])
                   + (strings - 1)]

\* The loop of prune over file_sources.
RECURSIVE CodeExtractLoop(_, _, _, _, _)
CodeExtractLoop(rest, selected_files, total_tokens, max_tokens, oracle) ==
    IF rest = <<>> THEN selected_files
    ELSE LET file_source == Head(rest)
             raw_snippets == oracle[file_source.file_path]
         IN IF total_tokens + file_source.tokens <= full_file_threshold(max_tokens)
            THEN CodeExtractLoop(Tail(rest), Append(selected_files, file_source),
                                 total_tokens + file_source.tokens, max_tokens, oracle)
            ELSE IF total_tokens >= max_tokens THEN selected_files
            ELSE IF ~raw_snippets.ok \/ raw_snippets.items = <<>>
            THEN CodeExtractLoop(Tail(rest), selected_files, total_tokens,
                                 max_tokens, oracle)
            ELSE LET out == _merge_overlapping_snippets(
                                raw_snippets.items,
                                [n \in 1 .. Len(raw_snippets.items) |-> n])
                     merged_snippets == Deref(out.heap, out.merged)
                     new_content == _build_snippet_content(file_source.source_code,
                                                           merged_snippets)
                     new_tokens == count_tokens(new_content)
                 IN IF total_tokens + new_tokens <= max_tokens
                    THEN CodeExtractLoop(
                             Tail(rest),
                             Append(selected_files,
                                    CodeDocument(file_source.file_path, new_content,
                                                 new_tokens)),
                             total_tokens + new_tokens, max_tokens, oracle)
                    ELSE selected_files

CodeExtractorPruner_prune(max_tokens, file_sources, oracle) ==
    CodeExtractLoop(file_sources, <<>>, 0, max_tokens, oracle)

(***************************************************************************)
(* SpecCodeExtract: CodeExtractorPruner(max_tokens).prune(file_sources, _) *)
(* with the oracle's parsed answer per file fixed by the input.            *)
(***************************************************************************)
CodeFileLines == {2, 12}

CodeOracleResponses ==
    {OracleError, OracleItems(<<>>),
     OracleItems(<<Range(1, 2)>>),
     OracleItems(<<Range(3, 1)>>),
     OracleItems(<<Range(1, 2), Range(3, 1)>>),
     OracleItems(<<Range(4, 5), Range(1, 2)>>)}

CodeExtractBudgets == {10, 40, 100}

CodeExtractCalls(n) ==
    {[op |-> "CodeExtractorPruner.prune", max_tokens |-> m,
      file_sources |-> [i \in 1 .. n |-> CodeDocument(i, CodeText(i, l[i]), -1)],
      oracle |-> o] :
        m \in CodeExtractBudgets, l \in [1 .. n -> CodeFileLines],
        o \in [1 .. n -> CodeOracleResponses]}

InitCodeExtract ==
    /\ call \in UNION {CodeExtractCalls(n) : n \in 0 .. MaxCodeFiles}
    /\ ret = Pending
    /\ pc = "call"
    /\ frame = NoFrame
    /\ ExtractIdle

CodeExtractPrune ==
    /\ call.op = "CodeExtractorPruner.prune"
    /\ pc = "call"
    /\ ret' = Return(CodeExtractorPruner_prune(call.max_tokens, call.file_sources,
                                               call.oracle))
    /\ pc' = "done"
    /\ UNCHANGED <<call, frame, extractVars>>

NextCodeExtract == CodeExtractPrune

SpecCodeExtract == InitCodeExtract /\ [][NextCodeExtract]_vars

CodeExtractDone == call.op = "CodeExtractorPruner.prune" /\ pc = "done"

Malformed(ranges) ==
    \E n \in 1 .. Len(ranges) : ranges[n].start_line > ranges[n].end_line

\* C21: a malformed line range (start line > end line) in the oracle's
\* answer is rejected with an error: the call raises, or at least no
\* extracted content is built from an answer that holds such a range.
C21_MalformedRangeRejected ==
    CodeExtractDone =>
        \/ ret.kind = "raise"
        \/ \A k \in 1 .. Len(ret.value) :
             (ret.value[k].source_code.kind = "code_snippets")
             => ~Malformed(call.oracle[ret.value[k].file_path].items)

\* What happens instead: the range alone yields a header without lines.
C21_MalformedRangeUsed ==
    /\ CodeExtractDone /\ ret.kind = "return"
    /\ \E k \in 1 .. Len(ret.value) :
         /\ call.oracle[ret.value[k].file_path].items = <<Range(3, 1)>>
         /\ ret.value[k].source_code.kind = "code_snippets"
         /\ ret.value[k].source_code.parts[1].from = 3
         /\ ret.value[k].source_code.parts[1].to = 1
         /\ ret.value[k].source_code.parts[1].shown = 0

\* Next to a well-formed range it is merged away without a trace.
C21_MalformedRangeMergedAway ==
    /\ CodeExtractDone /\ ret.kind = "return"
    /\ \E k \in 1 .. Len(ret.value) :
         /\ call.oracle[ret.value[k].file_path].items = <<Range(1, 2), Range(3, 1)>>
         /\ ret.value[k].source_code.kind = "code_snippets"
         /\ Len(ret.value[k].source_code.parts) = 1
         /\ ret.value[k].source_code.parts[1].to = 2

ExtractDispatched ==
    call.op = "ExtractPruner.prune" /\ pc \in {"collect", "done"} /\ ret.kind # "raise"

\* The documents step 1 of prune classifies small, and those it classifies
\* large, computed from the arguments.
ClassifiedSmall ==
    Partition(call.file_sources, <<>>, <<>>, 0,
              full_file_threshold(call.max_tokens)).small

ClassifiedLarge ==
    Partition(call.file_sources, <<>>, <<>>, 0,
              full_file_threshold(call.max_tokens)).large

\* C22: extraction tasks are submitted for exactly the documents classified
\* large, one task each; a document classified small gets no task (no
\* oracle call) and reaches the final bin-pack whole, with its original
\* content.
C22_TasksOnlyForLargeDocuments ==
    ExtractDispatched =>
        /\ large_files = ClassifiedLarge
        /\ futures \subseteq 1 .. Len(ClassifiedLarge)
        /\ (pc = "done") =>
             \A n \in 1 .. Len(ClassifiedSmall) :
                 ClassifiedSmall[n] \in SeqRange(processed_large_files)

\* What the code does: one task for every document, the small ones included.
C22_TasksForAllDocuments ==
    ExtractDispatched =>
        /\ large_files = ClassifiedLarge \o ClassifiedSmall
        /\ Len(large_files) = Len(call.file_sources)
        /\ futures \subseteq 1 .. Len(call.file_sources)

\* A small document came back with the oracle's snippets instead of its content.
C22_SmallDocumentExtracted ==
    /\ ExtractDone /\ ret.kind = "return"
    /\ \E n \in 1 .. Len(ClassifiedSmall) : \E k \in 1 .. Len(ret.value) :
         /\ ret.value[k].file_path = ClassifiedSmall[n].file_path
         /\ ret.value[k].source_code.kind = "snippets"

\* C23: the merger is a pure function: after a call the caller's list holds
\* the same ranges in the same order and the start_line and end_line of
\* every input range are what they were before the call.
C23_MergerLeavesInputUnchanged ==
    (call.op = "_merge_overlapping_snippets" /\ pc = "merged") =>
        /\ frame.x = [n \in 1 .. Len(call.snippets) |-> n]
        /\ Deref(frame.heap, frame.x) = call.snippets

\* What holds: the list itself and every start_line are untouched, and an
\* end_line is only ever raised.
C23_OnlyEndLinesGrow ==
    MergeReturned =>
        /\ frame.x = [n \in 1 .. Len(call.snippets) |-> n]
        /\ \A n \in 1 .. Len(call.snippets) :
             /\ frame.heap[n].start_line = call.snippets[n].start_line
             /\ frame.heap[n].end_line >= call.snippets[n].end_line

\* The example's first range reads {1, 10} in the caller's list afterwards.
C23_ExampleInputRewritten ==
    /\ MergeReturned /\ call.snippets = MergeExample
    /\ frame.heap[1] = Range(1, 10)

(***************************************************************************)
(* SpecObjects: the two prune paths of context/pruner.py over Document     *)
(* objects.  frame.heap[r] is the Document object with reference r; the    *)
(* caller's list frame.file_sources holds the references 1 .. n of the     *)
(* caller's objects, and Document(...) allocates the next reference.       *)
(* Identifiers are distinct within a call, so a reference is found by the  *)
(* identifier of the object it points to.                                  *)
(***************************************************************************)
RefOf(heap, refs, doc) ==
    CHOOSE r \in SeqRange(refs) : heap[r].file_path = doc.file_path

RefsOf(heap, refs, docs) == [k \in 1 .. Len(docs) |-> RefOf(heap, refs, docs[k])]

\* A task that writes the extracted content into the document it was given.
TaskEffect_in_place(heap, ref, response) ==
    [heap |-> [heap EXCEPT ![ref] = _process_single_large_file(heap[ref], response)],
     ref |-> ref]

\* _process_single_large_file returns Document(...): a new object.
TaskEffect(heap, ref, response) ==
    [heap |-> Append(heap, _process_single_large_file(heap[ref], response)),
     ref |-> Len(heap) + 1]

InitObjects ==
    /\ call \in [op : {"DeletePruner.prune"}, max_tokens : DeleteBudgets,
                 file_sources : DocLists]
             \cup UNION {ExtractCalls(n) : n \in 0 .. MaxExtractDocs}
    /\ ret = Pending
    /\ pc = "call"
    /\ frame = [fn |-> "objects", heap |-> call.file_sources,
                file_sources |-> [n \in 1 .. Len(call.file_sources) |-> n],
                submitted |-> <<>>, processed |-> <<>>, result |-> <<>>]
    /\ ExtractIdle

\* DeletePruner.prune returns the caller's list or a new list of the
\* caller's leading objects.
ObjDeletePrune ==
    /\ call.op = "DeletePruner.prune"
    /\ pc = "call"
    /\ IF BasePruner_init_ok(call.max_tokens)
       THEN LET kept == DeletePruner_prune(call.max_tokens,
                                           Deref(frame.heap, frame.file_sources))
            IN /\ frame' = [frame EXCEPT !.result = Prefix(frame.file_sources, Len(kept))]
               /\ ret' = Return(kept)
       ELSE /\ ret' = Raise("ValueError")
            /\ UNCHANGED frame
    /\ pc' = "done"
    /\ UNCHANGED <<call, extractVars>>

\* ExtractPruner.prune up to the submission of the tasks.
ObjExtractStart ==
    /\ call.op = "ExtractPruner.prune"
    /\ pc = "call"
    /\ IF BasePruner_init_ok(call.max_tokens)
       THEN LET split == Partition(Deref(frame.heap, frame.file_sources), <<>>, <<>>,
                                   0, full_file_threshold(call.max_tokens))
                large_refs == RefsOf(frame.heap, frame.file_sources,
                                     split.large \o split.small)
            IN /\ frame' = [frame EXCEPT !.submitted = large_refs]
               /\ futures' = 1 .. Len(large_refs)
               /\ pc' = "collect"
               /\ UNCHANGED ret
       ELSE /\ ret' = Raise("ValueError")
            /\ pc' = "done"
            /\ UNCHANGED <<frame, futures>>
    /\ UNCHANGED <<call, small_files, large_files, processed_large_files>>

ObjTaskComplete ==
    /\ frame.fn = "objects"
    /\ pc = "collect"
    /\ \E i \in futures :
         LET ref == frame.submitted[i]
             out == TaskEffect(frame.heap, ref,
                               call.oracle[frame.heap[ref].file_path])
         IN /\ frame' = [frame EXCEPT !.heap = out.heap,
                                      !.processed = Append(@, out.ref)]
            /\ futures' = futures \ {i}
    /\ UNCHANGED <<call, ret, pc, small_files, large_files, processed_large_files>>

\* The sort and the bin-pack select among the processed objects.
ObjExtractFinish ==
    /\ frame.fn = "objects"
    /\ pc = "collect"
    /\ futures = {}
    /\ LET final_sources == FinalSources(Deref(frame.heap, frame.processed),
                                         call.max_tokens)
       IN /\ frame' = [frame EXCEPT
                          !.result = RefsOf(frame.heap, frame.processed, final_sources)]
          /\ ret' = Return(final_sources)
    /\ pc' = "done"
    /\ UNCHANGED <<call, extractVars>>

NextObjects == ObjDeletePrune \/ ObjExtractStart \/ ObjTaskComplete \/ ObjExtractFinish

SpecObjects == InitObjects /\ [][NextObjects]_vars

CallerObjects == 1 .. Len(call.file_sources)

\* C24: no pruning path changes the identifier, content or token count of
\* an input Document or the caller's list; a returned Document whose
\* content differs from the input's is a newly created object.
C24_InputDocumentsUntouched ==
    /\ frame.file_sources = [n \in CallerObjects |-> n]
    /\ \A r \in CallerObjects : frame.heap[r] = call.file_sources[r]
    /\ \A k \in 1 .. Len(frame.result) :
         LET r == frame.result[k] IN
         (\E i \in CallerObjects :
             /\ call.file_sources[i].file_path = frame.heap[r].file_path
             /\ call.file_sources[i].source_code # frame.heap[r].source_code)
         => r \notin CallerObjects

\* ExtractPruner.prune returned a new object holding snippets of a caller's
\* document, next to a completed task for a second document.
C24_Witness ==
    /\ call.op = "ExtractPruner.prune" /\ pc = "done" /\ ret.kind = "return"
    /\ Len(call.file_sources) = 2
    /\ Len(frame.heap) = 4
    /\ \E k \in 1 .. Len(frame.result) :
         /\ frame.result[k] \notin CallerObjects
         /\ frame.heap[frame.result[k]].source_code.kind = "snippets"

\* DeletePruner.prune returned some of the caller's own objects.
C24_WitnessDelete ==
    /\ call.op = "DeletePruner.prune" /\ pc = "done" /\ ret.kind = "return"
    /\ Len(frame.result) >= 1 /\ Len(frame.result) < Len(call.file_sources)
    /\ \A k \in 1 .. Len(frame.result) : frame.result[k] \in CallerObjects

(***************************************************************************)
(* The warnings a build call has printed when it returns: one name per     *)
(* print statement that reports a loss, under the condition the code       *)
(* prints it.  The banners printed on every call ("Applying ... strategy", *)
(* "Pruning complete ...") report no loss and are left out.                *)
(***************************************************************************)
\* build: print(f"Error: {e}"); _prune_system_prompt: "CRITICAL WARNING ...".
PromptWarnings ==
    IF ContextBudget(safe_zone(call.max_window_size),
                     count_tokens(call.system_prompt), call.task_type).kind = "raise"
    THEN {"Error"} \cup
         (IF count_tokens(call.system_prompt) > safe_zone(call.max_window_size)
          THEN {"CRITICAL WARNING"} ELSE {})
    ELSE {}

\* _prune_conversation_history prints nothing.
HistoryWarnings == {}

\* DeletePruner.prune: "Token limit reached. Discarding remaining files ...".
DeleteWarnings ==
    IF _count_total_tokens(call.file_sources) > BuildBudget.file_context_budget
    THEN {"Token limit reached"} ELSE {}

\* The tasks: "No snippets with score >= 5 found", "Error extracting content";
\* the bin-pack: "too large to fit. Discarding.".
ExtractWarnings ==
    (IF \E i \in Completed : OracleFailed(i)
     THEN {"Error extracting content"} ELSE {})
    \cup (IF \E i \in Completed : ~OracleFailed(i) /\ HighScoreItems(i) = {}
          THEN {"No snippets"} ELSE {})
    \cup (IF Len(FinalSources(processed_large_files,
                              BuildBudget.file_context_budget))
               < Len(processed_large_files)
          THEN {"too large to fit"} ELSE {})

BuildWarnings ==
    IF PromptWarnings # {} THEN PromptWarnings
    ELSE HistoryWarnings
         \cup (IF call.file_pruning_strategy = "delete"
               THEN DeleteWarnings ELSE ExtractWarnings)

ReturnedHistory == SelectSeq(ret.value, LAMBDA m : m.content.kind = "message")

ReturnedFiles ==
    LET wrapped == SelectSeq(ret.value, LAMBDA m : m.content.kind = "context_files")
    IN IF wrapped = <<>> THEN <<>> ELSE wrapped[1].content.parts

PromptTruncated == ret.value[1].content.len < call.system_prompt.len

HistoryDropped == Len(ReturnedHistory) < Len(call.conversations)

DocumentDropped == Len(ReturnedFiles) < Len(call.file_sources)

\* C25: whenever a build call that returns has discarded material (it cut
\* the system prompt, dropped a history message or dropped a document) it
\* has printed a warning during the call.
C25_DiscardIsLogged ==
    (BuildDone /\ ret.kind = "return" /\ InBuildDomain
       /\ (PromptTruncated \/ HistoryDropped \/ DocumentDropped))
    => BuildWarnings # {}

\* The two losses that are reported: a cut prompt and a dropped document.
C25_PromptAndDocumentLossLogged ==
    (BuildDone /\ ret.kind = "return" /\ InBuildDomain
       /\ (PromptTruncated \/ DocumentDropped))
    => BuildWarnings # {}

\* A history message was dropped, everything else was kept, nothing printed.
C25_SilentHistoryLoss ==
    /\ BuildDone /\ ret.kind = "return" /\ InBuildDomain
    /\ HistoryDropped /\ ~PromptTruncated /\ ~DocumentDropped
    /\ BuildWarnings = {}

(***************************************************************************)
(* SpecExtractNone: ExtractPruner.prune called with lists that may hold    *)
(* None entries.                                                           *)
(***************************************************************************)
ExtractSourcesOfLen(n) ==
    {[i \in 1 .. n |-> IF f[i] = 0 THEN PyNone
                       ELSE Document(i, Text("file", i, f[i]), Some(-1))] :
        f \in [1 .. n -> ExtractDocLens \cup {0}]}

InitExtractNone ==
    /\ call \in UNION {[op : {"ExtractPruner.prune"}, max_tokens : ExtractBudgets,
                        file_sources : ExtractSourcesOfLen(n),
                        oracle : [1 .. n -> OracleResponses]] :
                          n \in 0 .. MaxExtractDocs}
    /\ ret = Pending
    /\ pc = "call"
    /\ frame = NoFrame
    /\ ExtractIdle

SpecExtractNone == InitExtractNone /\ [][NextExtract]_vars

\* C26: when an unexpected error occurs inside ExtractPruner.prune (a None
\* entry in file_sources) prune returns the original file_sources list, and
\* every call of a constructed pruner returns a list of documents.
C26_ErrorReturnsOriginalList ==
    (ExtractDone /\ BasePruner_init_ok(call.max_tokens)) =>
        /\ ret.kind = "return"
        /\ HasNoneSource(call.file_sources) => ret.value = call.file_sources

\* What the code does on the error: the call ends with None, no task was
\* submitted.
C26_ErrorReturnsNone ==
    (ExtractDone /\ BasePruner_init_ok(call.max_tokens)
       /\ HasNoneSource(call.file_sources))
    => (ret = ReturnNone /\ large_files = <<>> /\ processed_large_files = <<>>)

\* A call without None entry returned a list next to it.
C26_NoErrorReturnsList ==
    (ExtractDone /\ BasePruner_init_ok(call.max_tokens)
       /\ ~HasNoneSource(call.file_sources))
    => ret.kind = "return"

(***************************************************************************)
(* context/context_manager.py: ContextManager                              *)
(***************************************************************************)
MaxManagerMsgs == 3

\* len("\n\n[---SYSTEM WARNING: This content has been truncated due to
\* context window limitations.---]")
truncation_warning == 92

\* _truncate_single_message once safe_char_count is computed.
_truncate_single_message(message, safe_zone_size, safe_char_count) ==
    IF count_tokens(message.content) > safe_zone_size
    THEN Message(message.role,
                 [message.content EXCEPT
                    !.len = Min(message.content.len, safe_char_count)
                              + truncation_warning,
                    !.parts = <<"truncation_warning">>])
    ELSE message

\* count_tokens("".join(msg.get('content', '') for msg in messages))
ManagerTokens(messages) ==
    count_tokens(Text("joined", 0,
                      SumSeq([n \in 1 .. Len(messages) |-> messages[n].content.len])))

\* A loop that removes the newest message instead of the oldest.
RECURSIVE ManagerLoopPopNewest(_, _, _)
ManagerLoopPopNewest(system_prompt, workable_messages, safe_zone_size) ==
    IF ManagerTokens(system_prompt \o workable_messages) > safe_zone_size
    THEN IF workable_messages = <<>> THEN Raise("ValueError")
         ELSE ManagerLoopPopNewest(system_prompt,
                                   Prefix(workable_messages,
                                          Len(workable_messages) - 1),
                                   safe_zone_size)
    ELSE Return(system_prompt \o workable_messages)

ContextManager_prune_pop_newest(pre_processed_messages, safe_zone_size) ==
    IF pre_processed_messages = <<>> THEN Return(<<>>)
    ELSE IF ManagerTokens(pre_processed_messages) <= safe_zone_size
    THEN Return(pre_processed_messages)
    ELSE IF pre_processed_messages[1].role = "system"
    THEN ManagerLoopPopNewest(<<pre_processed_messages[1]>>,
                              Tail(pre_processed_messages), safe_zone_size)
    ELSE ManagerLoopPopNewest(<<>>, pre_processed_messages, safe_zone_size)

\* The while loop: system_prompt is <<>> when the list has no leading
\* system message.
RECURSIVE ManagerLoop(_, _, _)
ManagerLoop(system_prompt, workable_messages, safe_zone_size) ==
    IF ManagerTokens(system_prompt \o workable_messages) > safe_zone_size
    THEN IF workable_messages = <<>> THEN Raise("ValueError")
         ELSE ManagerLoop(system_prompt, Tail(workable_messages), safe_zone_size)
    ELSE Return(system_prompt \o workable_messages)

\* prune after the pre-processing of step 1.
ContextManager_prune(pre_processed_messages, safe_zone_size) ==
    IF pre_processed_messages = <<>> THEN Return(<<>>)
    ELSE IF ManagerTokens(pre_processed_messages) <= safe_zone_size
    THEN Return(pre_processed_messages)
    ELSE IF pre_processed_messages[1].role = "system"
    THEN ManagerLoop(<<pre_processed_messages[1]>>,
                     Tail(pre_processed_messages), safe_zone_size)
    ELSE ManagerLoop(<<>>, pre_processed_messages, safe_zone_size)

(***************************************************************************)
(* SpecManager: ContextManager(model, max_window_size).prune(messages), as *)
(* the prompt decorator calls it before every request.                     *)
(***************************************************************************)
ManagerWindows == {12, 23, 112, 778}
ManagerMsgLens == {0, 15, 63, 200, 2400}
ManagerRoles == {"system", "user"}

ManagerMessages ==
    UNION {{[i \in 1 .. n |-> Message(r[i], Text("message", i, l[i]))] :
               r \in [1 .. n -> ManagerRoles], l \in [1 .. n -> ManagerMsgLens]} :
           n \in 0 .. MaxManagerMsgs}

InitManager ==
    /\ call \in [op : {"ContextManager.prune"}, max_window_size : ManagerWindows,
                 messages : ManagerMessages]
    /\ ret = Pending
    /\ pc = "call"
    /\ frame = NoFrame
    /\ ExtractIdle

ManagerPrune ==
    /\ call.op = "ContextManager.prune"
    /\ pc = "call"
    /\ LET safe_zone_size == safe_zone(call.max_window_size)
           outcomes(n) == SafeChars(call.messages[n].content, safe_zone_size)
           twofold == {n \in 1 .. Len(call.messages) :
                          /\ count_tokens(call.messages[n].content) > safe_zone_size
                          /\ Cardinality(outcomes(n)) > 1}
       IN \E below \in SUBSET twofold :
            LET safe_char_count(n) ==
                    IF n \in below
                    THEN CHOOSE c \in outcomes(n) : \A o \in outcomes(n) : c <= o
                    ELSE CHOOSE c \in outcomes(n) : \A o \in outcomes(n) : c >= o
                pre_processed_messages ==
                    [n \in 1 .. Len(call.messages) |->
                       _truncate_single_message(call.messages[n], safe_zone_size,
                                                safe_char_count(n))]
            IN /\ frame' = [fn |-> "ContextManager.prune",
                            pre_processed_messages |-> pre_processed_messages]
               /\ ret' = ContextManager_prune(pre_processed_messages,
                                              safe_zone_size)
    /\ pc' = "done"
    /\ UNCHANGED <<call, extractVars>>

NextManager == ManagerPrune

SpecManager == InitManager /\ [][NextManager]_vars

ManagerDone == call.op = "ContextManager.prune" /\ pc = "done"

\* The leading system message of the pre-processed list, if there is one,
\* and the messages after it.
LeadingSystem ==
    IF frame.pre_processed_messages # <<>>
       /\ frame.pre_processed_messages[1].role = "system"
    THEN <<frame.pre_processed_messages[1]>> ELSE <<>>

AfterSystem ==
    IF LeadingSystem # <<>> THEN Tail(frame.pre_processed_messages)
    ELSE frame.pre_processed_messages

ManagerFitting ==
    {n \in 0 .. Len(AfterSystem) :
        ManagerTokens(LeadingSystem \o Suffix(AfterSystem, n))
          <= safe_zone(call.max_window_size)}

\* C27: whenever ContextManager.prune returns, the result is the leading
\* system message (if the input starts with one) followed by the longest
\* contiguous suffix of the other per-message truncated messages that,
\* together with the system message, costs at most the safe zone.
C27_SystemPlusLongestSuffix ==
    (ManagerDone /\ ret.kind = "return") =>
        \E n \in ManagerFitting :
            /\ ret.value = LeadingSystem \o Suffix(AfterSystem, n)
            /\ \A m \in ManagerFitting : m <= n

\* A truncated message was kept behind the system message while an older
\* message was removed.
C27_Witness ==
    /\ ManagerDone /\ ret.kind = "return"
    /\ Len(call.messages) = 3
    /\ LeadingSystem # <<>>
    /\ Len(ret.value) = 2
    /\ ret.value[2].content.parts = <<"truncation_warning">>

\* prune raises only when the system message alone exceeds the safe zone.
C27_RaisesOnlyForSystemAlone ==
    (ManagerDone /\ ret.kind = "raise") =>
        /\ LeadingSystem # <<>>
        /\ ManagerTokens(LeadingSystem) > safe_zone(call.max_window_size)

\* ---------------------------------------------------------------------
\* EnhancedExecutor.execute_task over an ExecutionPlan
\* (src/agent/enhanced_executor.py, src/agent/enhanced_planner.py).
\* ---------------------------------------------------------------------

MaxPlanSteps == 2
MaxNewSteps == 3

max_retries == 2

\* PlanStep: status PENDING, retry_count 0 and max_retries 2 by default.
PlanStep(step_id, dependencies) ==
    [step_id |-> step_id, dependencies |-> dependencies,
     status |-> "pending", retry_count |-> 0, max_retries |-> max_retries]

\* all(self.steps[dep_id-1].status == SUCCESS for dep_id in dependencies):
\* "error" stands for the IndexError of a dependency beyond the list.
RECURSIVE DependenciesMet(_, _)
DependenciesMet(steps, dependencies) ==
    IF dependencies = <<>> THEN "yes"
    ELSE IF Head(dependencies) > Len(steps) THEN "error"
    ELSE IF steps[Head(dependencies)].status # "success" THEN "no"
    ELSE DependenciesMet(steps, Tail(dependencies))

\* The position of the step get_next_executable_step returns, searching
\* steps[current_step:]; 0 for None and -1 for an IndexError.
RECURSIVE NextFrom(_, _)
NextFrom(steps, i) ==
    IF i > Len(steps) THEN 0
    ELSE IF steps[i].status # "pending" THEN NextFrom(steps, i + 1)
    ELSE LET met == DependenciesMet(steps, steps[i].dependencies)
         IN  IF met = "error" THEN -1
             ELSE IF met = "yes" THEN i
             ELSE NextFrom(steps, i + 1)

get_next_executable_step(plan) == NextFrom(plan.steps, plan.current_step + 1)

can_continue(plan) ==
    \E i \in 1 .. Len(plan.steps) :
        /\ plan.steps[i].status \in {"pending", "failed"}
        /\ plan.steps[i].retry_count < plan.steps[i].max_retries

\* mark_step_completed writes the status of steps[step_id - 1]; the caller
\* has checked that the index exists.
mark_step_completed(plan, step_id, success) ==
    [plan EXCEPT !.steps[step_id].status =
        IF success THEN "success" ELSE "failed"]

\* The planner's recovery: only "fix_and_continue" changes the plan, to
\* the successful steps followed by the new steps, which are numbered
\* from the length of the old list onwards.
handle_step_failure(plan, recovery_data) ==
    IF recovery_data.recovery_strategy = "fix_and_continue"
    THEN LET new_steps ==
                 [i \in 1 .. Len(recovery_data.new_steps) |->
                     PlanStep(Len(plan.steps) + i,
                              recovery_data.new_steps[i])]
             successful_steps ==
                 SelectSeq(plan.steps, LAMBDA s : s.status = "success")
         IN  [plan EXCEPT !.steps = successful_steps \o new_steps,
                          !.current_step = Len(successful_steps)]
    ELSE plan

\* The dependency lists a generated step can carry.
StepDependencies == {<<>>, <<1>>}

StepLists(n) ==
    UNION {[1 .. k -> StepDependencies] : k \in 0 .. n}

\* create_execution_plan: the steps the planner numbers 1, 2, ...
InitialPlans ==
    {[steps |-> [i \in 1 .. Len(deps) |->
                    PlanStep(i, IF i = 1 THEN <<>> ELSE deps[i])],
      current_step |-> 0] :
        deps \in StepLists(MaxPlanSteps) \ {<<>>}}

\* What _replan_after_failure can answer; "error" is an answer that does
\* not parse or lacks a key.
RecoveryAnswers ==
    {[recovery_strategy |-> s, new_steps |-> n] :
        s \in {"fix_and_continue", "alternative_approach",
               "graceful_failure"},
        n \in StepLists(MaxNewSteps)}
    \cup {[recovery_strategy |-> "error", new_steps |-> <<>>]}

ExecutorFrame(plan) ==
    [fn |-> "execute_task", plan |-> plan, steps_run |-> 0,
     final_result |-> FALSE, failed_steps |-> 0, recovery_attempts |-> 0]

InitExecutor ==
    /\ call \in {[fn |-> "execute_task", plan |-> p] : p \in InitialPlans}
    /\ ret = Pending
    /\ pc = "loop"
    /\ frame = ExecutorFrame(call.plan)
    /\ ExtractIdle

\* The end of execute_task after the loop: the final result or the
\* "Task failed" error.
TaskEnd(final_result) ==
    Return([type |-> IF final_result THEN "final_result" ELSE "error",
            message |-> IF final_result THEN "completed" ELSE "failed"])

\* The outer except of execute_task.
TaskUnexpected == Return([type |-> "error", message |-> "unexpected"])

\* The break after the retries of a step are used up.
TaskRetriesExhausted == Return([type |-> "error", message |-> "retries"])

ExecutorRunning ==
    /\ pc = "loop"
    /\ frame.fn = "execute_task"

\* The loop ends: can_continue is false, or no step is executable, or
\* the dependency check raises.
ExecutorLoopExit ==
    /\ ExecutorRunning
    /\ \/ ~can_continue(frame.plan)
       \/ get_next_executable_step(frame.plan) <= 0
    /\ ret' = IF can_continue(frame.plan)
                 /\ get_next_executable_step(frame.plan) = -1
              THEN TaskUnexpected
              ELSE TaskEnd(frame.final_result)
    /\ pc' = "done"
    /\ UNCHANGED <<call, frame, extractVars>>

\* One iteration whose tool call succeeds.
ExecutorStepSucceeds ==
    /\ ExecutorRunning
    /\ can_continue(frame.plan)
    /\ get_next_executable_step(frame.plan) > 0
    /\ \E is_execution_result \in BOOLEAN :
        LET pos == get_next_executable_step(frame.plan)
            next_step == frame.plan.steps[pos]
            running == [frame.plan EXCEPT !.steps[pos].status = "running"]
        IN  IF next_step.step_id > Len(running.steps)
            THEN /\ ret' = TaskUnexpected
                 /\ pc' = "done"
                 /\ frame' = [frame EXCEPT !.plan = running,
                                           !.steps_run = @ + 1]
            ELSE /\ frame' =
                     [frame EXCEPT
                         !.plan = mark_step_completed(running,
                                      next_step.step_id, TRUE),
                         !.steps_run = @ + 1,
                         !.final_result =
                             IF next_step.step_id = Len(running.steps)
                             THEN is_execution_result ELSE @]
                 /\ UNCHANGED <<ret, pc>>
    /\ UNCHANGED <<call, extractVars>>

\* _handle_step_failure: the planner's answer replaces the plan; an
\* exception of the planner is reported and the loop goes on.
_handle_step_failure(plan, recovery_data) ==
    IF recovery_data.recovery_strategy = "error" THEN plan
    ELSE handle_step_failure(plan, recovery_data)

\* One iteration whose tool call fails.
ExecutorStepFails ==
    /\ ExecutorRunning
    /\ can_continue(frame.plan)
    /\ get_next_executable_step(frame.plan) > 0
    /\ \E recovery_data \in RecoveryAnswers :
        LET pos == get_next_executable_step(frame.plan)
            next_step == frame.plan.steps[pos]
            running == [frame.plan EXCEPT !.steps[pos].status = "running"]
        IN  IF next_step.step_id > Len(running.steps)
            THEN /\ ret' = TaskUnexpected
                 /\ pc' = "done"
                 /\ frame' = [frame EXCEPT !.plan = running,
                                           !.steps_run = @ + 1,
                                           !.failed_steps = @ + 1]
            ELSE LET marked == mark_step_completed(running,
                                   next_step.step_id, FALSE)
                 IN  IF next_step.retry_count < next_step.max_retries
                     THEN /\ frame' =
                              [frame EXCEPT
                                  !.plan = _handle_step_failure(marked,
                                               recovery_data),
                                  !.steps_run = @ + 1,
                                  !.failed_steps = @ + 1,
                                  !.recovery_attempts = @ + 1]
                          /\ UNCHANGED <<ret, pc>>
                     ELSE /\ frame' = [frame EXCEPT !.plan = marked,
                                                    !.steps_run = @ + 1,
                                                    !.failed_steps = @ + 1]
                          /\ ret' = TaskRetriesExhausted
                          /\ pc' = "done"
    /\ UNCHANGED <<call, extractVars>>

NextExecutor ==
    \/ ExecutorLoopExit
    \/ ExecutorStepSucceeds
    \/ ExecutorStepFails

SpecExecutor == InitExecutor /\ [][NextExecutor]_vars

ExecutorPlan == frame.plan

ExecutorFrameLive == frame.fn = "execute_task"

\* C28: in a task whose plan has one step, every failure is a failure of
\* that step or of a step that replaced it, so recovery is attempted at
\* most max_retries times before the task ends with an error.
C28_RecoveryAtMostMaxRetries ==
    (ExecutorFrameLive /\ Len(call.plan.steps) = 1) =>
        frame.recovery_attempts <= max_retries

\* No step's retry_count ever leaves 0, so the retry limit never ends a
\* task.
C28_RetryLimitNeverApplies ==
    ExecutorFrameLive =>
        /\ \A i \in 1 .. Len(ExecutorPlan.steps) :
               ExecutorPlan.steps[i].retry_count = 0
        /\ ret # TaskRetriesExhausted

\* Every failed step that could be marked was followed by a recovery.
C28_EveryFailureRecovers ==
    ExecutorFrameLive =>
        frame.recovery_attempts <= frame.failed_steps
        /\ frame.failed_steps <= frame.recovery_attempts + 1

\* A third recovery in a task that started with one step.
C28_ThirdRecovery ==
    /\ ExecutorFrameLive
    /\ Len(call.plan.steps) = 1
    /\ frame.recovery_attempts = max_retries + 1

SpecExecutorFair == SpecExecutor /\ WF_vars(NextExecutor)

\* With recovery plans of at most MaxNewSteps steps the loop ends.
C28_TerminatesForBoundedPlans == <>(pc = "done")

\* C29: the step at list position i has step_id i + 1 (positions counted
\* from 0), so steps[step_id - 1] is the step with that id.
C29_StepIdIsPosition ==
    ExecutorFrameLive =>
        \A i \in 1 .. Len(ExecutorPlan.steps) :
            ExecutorPlan.steps[i].step_id = i

\* Until a recovery plan is installed the ids are the positions.
C29_IdsArePositionsBeforeRecovery ==
    (ExecutorFrameLive /\ frame.recovery_attempts = 0) =>
        \A i \in 1 .. Len(ExecutorPlan.steps) :
            ExecutorPlan.steps[i].step_id = i

\* After a recovery, a step was run and the outcome was written to a
\* different step: the one that ran is still "running".
C29_OutcomeWrittenToOtherStep ==
    /\ ExecutorFrameLive
    /\ pc = "loop"
    /\ \E i \in 1 .. Len(ExecutorPlan.steps) :
           /\ ExecutorPlan.steps[i].status = "running"
           /\ ExecutorPlan.steps[i].step_id # i
           /\ ExecutorPlan.steps[i].step_id <= Len(ExecutorPlan.steps)
           /\ ExecutorPlan.steps[ExecutorPlan.steps[i].step_id].status
                  \in {"success", "failed"}

\* After a recovery, the id of the step to run lies beyond the list and
\* the task ends in the outer except.
C29_IdBeyondList ==
    /\ ExecutorFrameLive
    /\ ret = TaskUnexpected
    /\ \E i \in 1 .. Len(ExecutorPlan.steps) :
           /\ ExecutorPlan.steps[i].status = "running"
           /\ ExecutorPlan.steps[i].step_id > Len(ExecutorPlan.steps)

\* ---------------------------------------------------------------------
\* DDBAgent.run_coding_task over a CodingTaskState
\* (src/agent/agent.py, src/agent/coding_task_state.py).
\* ---------------------------------------------------------------------

max_attempts == 5

\* The scripts the prompts can produce; "" is the empty script, which
\* CodeExecutor.run refuses without running it.
Scripts == {"", "select", "update"}

CodingTaskState(current_code) ==
    [current_code |-> current_code, execution_history |-> <<>>,
     refinement_attempts |-> 0, max_attempts |-> max_attempts]

\* A loop test that lets one more attempt through.
has_reached_max_attempts_beyond(state) ==
    state.refinement_attempts > state.max_attempts

has_reached_max_attempts(state) ==
    state.refinement_attempts >= state.max_attempts

ExecutionResult(success, script) ==
    [success |-> success, script |-> script]

\* The results CodeExecutor.run can return for a script.
CodeExecutor_run(script) ==
    IF script = "" THEN {ExecutionResult(FALSE, script)}
    ELSE {ExecutionResult(s, script) : s \in BOOLEAN}

add_execution_result(state, result) ==
    [state EXCEPT !.execution_history = Append(@, result)]

InitCoding ==
    /\ call \in {[fn |-> "run_coding_task", initial_script |-> s] :
                    s \in Scripts}
    /\ ret = Pending
    /\ pc = "loop"
    /\ frame = [fn |-> "run_coding_task",
                state |-> CodingTaskState(call.initial_script)]
    /\ ExtractIdle

CodingRunning ==
    /\ pc = "loop"
    /\ frame.fn = "run_coding_task"
    /\ ~has_reached_max_attempts(frame.state)

\* An attempt whose execution succeeds: the result is returned at once.
CodingAttemptSucceeds ==
    /\ CodingRunning
    /\ \E exec_result \in CodeExecutor_run(frame.state.current_code) :
        /\ exec_result.success
        /\ frame' = [frame EXCEPT
                        !.state = add_execution_result(@, exec_result)]
        /\ ret' = Return(exec_result)
    /\ pc' = "done"
    /\ UNCHANGED <<call, extractVars>>

\* An attempt whose execution fails: the script is replaced by the fixed
\* one and the attempt is counted.
CodingAttemptFails ==
    /\ CodingRunning
    /\ \E exec_result \in CodeExecutor_run(frame.state.current_code),
          fixed \in Scripts :
        /\ ~exec_result.success
        /\ frame' = [frame EXCEPT
                        !.state =
                            [add_execution_result(@, exec_result) EXCEPT
                                !.current_code = fixed,
                                !.refinement_attempts = @ + 1]]
    /\ UNCHANGED <<call, ret, pc, extractVars>>

\* The loop ends without a success: the last result is returned.
CodingGiveUp ==
    /\ pc = "loop"
    /\ frame.fn = "run_coding_task"
    /\ has_reached_max_attempts(frame.state)
    /\ ret' = Return(frame.state.execution_history[
                         Len(frame.state.execution_history)])
    /\ pc' = "done"
    /\ UNCHANGED <<call, frame, extractVars>>

NextCoding ==
    \/ CodingAttemptSucceeds
    \/ CodingAttemptFails
    \/ CodingGiveUp

SpecCoding == InitCoding /\ [][NextCoding]_vars

\* The loop is sequential code: an enabled iteration is executed.
SpecCodingFair == SpecCoding /\ WF_vars(NextCoding)

CodingHistory == frame.state.execution_history

CodingBounded ==
    /\ frame.state.refinement_attempts <= max_attempts
    /\ Len(CodingHistory) <= max_attempts
    /\ \A i \in 1 .. Len(CodingHistory) - 1 : ~CodingHistory[i].success
    /\ pc = "loop" =>
           /\ Len(CodingHistory) = frame.state.refinement_attempts
           /\ \A i \in 1 .. Len(CodingHistory) : ~CodingHistory[i].success
    /\ pc = "done" =>
           /\ CodingHistory # <<>>
           /\ ret = Return(CodingHistory[Len(CodingHistory)])
           /\ ~ret.value.success => Len(CodingHistory) = max_attempts

\* C30: run_coding_task executes the script at most max_attempts times
\* and terminates; it returns the first successful result as soon as
\* there is one, otherwise the last failed result after max_attempts
\* executions, and refinement_attempts never exceeds max_attempts.
C30_AtMostMaxAttemptsAndTerminates ==
    /\ [](frame.fn = "run_coding_task" => CodingBounded)
    /\ <>(pc = "done")

\* Both endings: a success after failed attempts, and max_attempts
\* failures.
C30_Witness ==
    /\ frame.fn = "run_coding_task"
    /\ pc = "done"
    /\ Len(CodingHistory) = max_attempts
    /\ ~ret.value.success
    /\ frame.state.refinement_attempts = max_attempts

C30_WitnessSuccess ==
    /\ frame.fn = "run_coding_task"
    /\ pc = "done"
    /\ Len(CodingHistory) = 3
    /\ ret.value.success

====
